---- MODULE Spec2Model ----
(***************************************************************************)
(* Request signing and signature verification core of iyzico-js.           *)
(*                                                                         *)
(* A JavaScript string is a sequence of one-character strings.  The two    *)
(* JavaScript non-values undefined and null are the one-element sequences  *)
(* Undefined and Null, whose element is not a character.  A JavaScript     *)
(* number is represented by its String() rendering, which is all the code  *)
(* ever reads of it.                                                       *)
(*                                                                         *)
(* HMAC-SHA256 (crypto.subtle) and base64 (btoa) are platform primitives.  *)
(* They are modelled as ideal encodings: a digest is HexLen characters,    *)
(* each determined by (key, message, position), so two digests are equal   *)
(* exactly when key and message are equal; base64 maps every block of      *)
(* three characters to four characters and pads the last block with '='.   *)
(***************************************************************************)
EXTENDS Integers, Sequences, FiniteSets, TLC

VARIABLES pc, op, args, message, hmacKey, shape, outcome, result, out, trace, gen, fetched,
          frames

vars == <<pc, op, args, message, hmacKey, shape, outcome, result, out, trace, gen, fetched,
         frames>>

\* ------------------------------------------------------------------------
\* Bounds
\* ------------------------------------------------------------------------

\* Length of a hex digest in the model (64 in crypto.subtle's HMAC-SHA256).
HexLen == 2

\* Largest number of '0' characters appended to an amount.
MaxZeros == 1

\* Largest length of a string handed to a library function on its own.
MaxStrLen == 4

\* Largest number of calls in flight at the same time.
MaxCalls == 2

\* ------------------------------------------------------------------------
\* JavaScript values
\* ------------------------------------------------------------------------

Undefined == <<"#undefined">>

Null == <<"#null">>

\* v == null
IsNullish(v) == v = Undefined \/ v = Null

\* String(v)
String(v) ==
  IF v = Undefined THEN <<"u", "n", "d", "e", "f", "i", "n", "e", "d">>
  ELSE IF v = Null THEN <<"n", "u", "l", "l">>
  ELSE v

\* !v for a string, undefined or null
IsFalsy(v) == IsNullish(v) \/ v = <<>>

\* a + b where a is a string
Plus(a, b) == a \o String(b)

\* str.includes(c)
Includes(str, c) == \E i \in 1..Len(str) : str[i] = c

\* str.slice(0, end), 0 <= end; an end past the string stops at its length
Slice0(str, end) == SubSeq(str, 1, IF end < Len(str) THEN end ELSE Len(str))

RECURSIVE Join(_, _)
\* Array.prototype.join
Join(parts, sep) ==
  IF Len(parts) = 0 THEN <<>>
  ELSE IF Len(parts) = 1 THEN parts[1]
  ELSE parts[1] \o sep \o Join(Tail(parts), sep)

RECURSIVE Zeros(_)
Zeros(n) == IF n = 0 THEN <<>> ELSE <<"0">> \o Zeros(n - 1)

\* ------------------------------------------------------------------------
\* lib/format.ts
\* ------------------------------------------------------------------------

\* if in place of while: at most one '0' is passed over
SkipZerosOnce(str, i) ==
  IF i > 0 /\ str[i + 1] = "0" THEN i - 1 ELSE i

RECURSIVE SkipZeros(_, _)
\* while (i > 0 && str[i] === '0') i--      (i is the 0-based JS index)
SkipZeros(str, i) ==
  IF i > 0 /\ str[i + 1] = "0" THEN SkipZeros(str, i - 1) ELSE i

\* the decimal point stays when the fractional part is all zeros
stripTrailingZerosKeepsDot(value) ==
  LET str == String(value)
  IN  IF ~Includes(str, ".") THEN str
      ELSE Slice0(str, SkipZeros(str, Len(str) - 1) + 1)

\* the zeros are stripped whether or not there is a decimal point
stripTrailingZerosNoDotCheck(value) ==
  LET str == String(value)
  IN  IF Len(str) = 0 THEN str
      ELSE LET i == SkipZeros(str, Len(str) - 1)
           IN  IF str[i + 1] = "." THEN Slice0(str, i) ELSE Slice0(str, i + 1)

stripTrailingZeros(value) ==
  LET str == String(value)
  IN  IF ~Includes(str, ".") THEN str
      ELSE LET i == SkipZeros(str, Len(str) - 1)
           IN  IF str[i + 1] = "." THEN Slice0(str, i) ELSE Slice0(str, i + 1)

\* formatPrice(price)
formatPrice(price) ==
  IF ~Includes(price, ".") THEN Plus(price, <<".", "0">>)
  ELSE LET i == SkipZeros(price, Len(price) - 1)
       IN  IF price[i + 1] = "." THEN Slice0(price, i + 2) ELSE Slice0(price, i + 1)

\* ------------------------------------------------------------------------
\* lib/crypto.ts
\* ------------------------------------------------------------------------

\* hmacSha256Hex(secret, message): the resolved value of the promise
hmacSha256Hex(secret, msg) ==
  [i \in 1..HexLen |-> ToString(<<secret, msg, i>>)]

RECURSIVE TimingLoopLastOnly(_, _, _, _)
\* result = ... in place of result |= ...: only the last position counts
TimingLoopLastOnly(a, b, i, acc) ==
  IF i < Len(a)
  THEN TimingLoopLastOnly(a, b, i + 1,
         [result |-> IF a[i + 1] = b[i + 1] THEN 0 ELSE 1,
          iterations |-> acc.iterations + 1])
  ELSE acc

RECURSIVE TimingLoopEarlyExit(_, _, _, _)
\* the loop is left at the first position that differs
TimingLoopEarlyExit(a, b, i, acc) ==
  IF i < Len(a)
  THEN IF a[i + 1] = b[i + 1]
       THEN TimingLoopEarlyExit(a, b, i + 1,
              [result |-> acc.result, iterations |-> acc.iterations + 1])
       ELSE [result |-> 1, iterations |-> acc.iterations + 1]
  ELSE acc

RECURSIVE TimingLoop(_, _, _, _)
\* for (let i = 0; i < a.length; i++) result |= a.charCodeAt(i) ^ b.charCodeAt(i)
\* result is 0 or non-zero (1); iterations counts the passes through the body
TimingLoop(a, b, i, acc) ==
  IF i < Len(a)
  THEN TimingLoop(a, b, i + 1,
         [result |-> IF a[i + 1] = b[i + 1] THEN acc.result ELSE 1,
          iterations |-> acc.iterations + 1])
  ELSE acc

\* the lengths are not compared first: the loop runs over a, and a
\* position past the end of b differs
timingSafeEqualNoLengthCheck(a, b) ==
  IF IsNullish(b) THEN [outcome |-> "thrown", value |-> FALSE, iterations |-> 0]
  ELSE IF Len(b) < Len(a)
  THEN [outcome |-> "returned", value |-> FALSE, iterations |-> Len(a)]
  ELSE LET r == TimingLoop(a, b, 0, [result |-> 0, iterations |-> 0])
       IN  [outcome |-> "returned", value |-> (r.result = 0), iterations |-> r.iterations]

\* the loop left out: two strings of the same length count as equal
timingSafeEqualLengthOnly(a, b) ==
  IF IsNullish(b) THEN [outcome |-> "thrown", value |-> FALSE, iterations |-> 0]
  ELSE [outcome |-> "returned", value |-> (Len(a) = Len(b)), iterations |-> 0]

\* timingSafeEqual(a, b) for a string a: reading b.length throws a TypeError
\* when b is undefined or null
timingSafeEqual(a, b) ==
  IF IsNullish(b) THEN [outcome |-> "thrown", value |-> FALSE, iterations |-> 0]
  ELSE IF Len(a) # Len(b) THEN [outcome |-> "returned", value |-> FALSE, iterations |-> 0]
  ELSE LET r == TimingLoop(a, b, 0, [result |-> 0, iterations |-> 0])
       IN  [outcome |-> "returned", value |-> (r.result = 0), iterations |-> r.iterations]

\* ------------------------------------------------------------------------
\* Platform: btoa
\* ------------------------------------------------------------------------

Min(a, b) == IF a < b THEN a ELSE b

\* one block of up to three input characters gives four output characters
Base64Block(chunk) ==
  [j \in 1..4 |-> IF j > Len(chunk) + 1 THEN "=" ELSE ToString(<<chunk, j>>)]

RECURSIVE btoa(_)
btoa(s) ==
  IF Len(s) = 0 THEN <<>>
  ELSE Base64Block(SubSeq(s, 1, Min(3, Len(s)))) \o btoa(SubSeq(s, 4, Len(s)))

\* ------------------------------------------------------------------------
\* lib/auth.ts
\* ------------------------------------------------------------------------

ApiKeyLabel == <<"a", "p", "i", "K", "e", "y", ":">>

RandomKeyLabel == <<"&", "r", "a", "n", "d", "o", "m", "K", "e", "y", ":">>

SignatureLabel == <<"&", "s", "i", "g", "n", "a", "t", "u", "r", "e", ":">>

HeaderPrefix == <<"I", "Y", "Z", "W", "S", "v", "2", " ">>

\* the body is appended without the null check
AuthMessageNoNullCheck(randomKey, uriPath, body) ==
  Plus(randomKey, Plus(uriPath, body))

\* const payload = body != null ? uriPath + body : uriPath
\* the message handed to hmacSha256Hex is randomKey + payload
AuthMessage(randomKey, uriPath, body) ==
  LET payload == IF ~IsNullish(body) THEN Plus(uriPath, body) ELSE uriPath
  IN  Plus(randomKey, payload)

\* `apiKey:${apiKey}&randomKey:${randomKey}&signature:${signatureHex}`
AuthString(apiKey, randomKey, signatureHex) ==
  ApiKeyLabel \o apiKey \o RandomKeyLabel \o randomKey \o SignatureLabel \o signatureHex

\* the secret key itself in the place of the digest
generateAuthHeaderKeyAsSignature(apiKey, secretKey, randomKey, uriPath, body) ==
  HeaderPrefix \o btoa(AuthString(apiKey, randomKey, secretKey))

\* the value generateAuthHeader resolves to
generateAuthHeader(apiKey, secretKey, randomKey, uriPath, body) ==
  LET signatureHex == hmacSha256Hex(secretKey, AuthMessage(randomKey, uriPath, body))
  IN  HeaderPrefix \o btoa(AuthString(apiKey, randomKey, signatureHex))

\* ------------------------------------------------------------------------
\* core/http.ts
\* ------------------------------------------------------------------------

\* const DEFAULT_TIMEOUT = 30_000
DEFAULT_TIMEOUT == <<"3", "0", "0", "0", "0">>

RECURSIVE StripTrailingSlashes(_)
\* baseUrl.replace(/\/+$/, '')
StripTrailingSlashes(s) ==
  IF s # <<>> /\ s[Len(s)] = "/" THEN StripTrailingSlashes(SubSeq(s, 1, Len(s) - 1)) ELSE s

\* constructor(options): the fields the requests read
HttpClient(options) ==
  [apiKey |-> options.apiKey,
   secretKey |-> options.secretKey,
   baseUrl |-> StripTrailingSlashes(options.baseUrl),
   timeout |-> IF IsNullish(options.timeout) THEN DEFAULT_TIMEOUT ELSE options.timeout]

\* a request body as a JavaScript value: its kind, and its text when it is
\* a string
Value(kind, text) == [kind |-> kind, text |-> text]

\* JSON.stringify(v): a string in quotes (the strings of the model need no
\* escape), the empty object, null; undefined for a value JSON has no text for
JSONStringify(v) ==
  CASE v.kind = "string" -> <<"\"">> \o v.text \o <<"\"">>
    [] v.kind = "object" -> <<"{", "}">>
    [] v.kind = "null" -> <<"n", "u", "l", "l">>
    [] OTHER -> Undefined

\* const jsonBody = body != null ? JSON.stringify(body) : undefined
JsonBody(body) ==
  IF body.kind # "undefined" /\ body.kind # "null" THEN JSONStringify(body) ELSE Undefined

\* str.indexOf(sub, from): the 0-based index of the first occurrence at or
\* after from, or -1
IndexOf(str, sub, from) ==
  LET hits == {i \in from..(Len(str) - Len(sub)) : SubSeq(str, i + 1, i + Len(sub)) = sub}
  IN  IF hits = {} THEN 0 - 1 ELSE CHOOSE i \in hits : \A j \in hits : i <= j

\* new URL(url).pathname for a url of the form scheme://host/path?query
\* without dot segments or characters to escape; a url without a scheme
\* makes new URL throw a TypeError
Pathname(url) ==
  LET scheme == IndexOf(url, <<":", "/", "/">>, 0)
      slash == IndexOf(url, <<"/">>, scheme + 3)
      query == IndexOf(url, <<"?">>, 0)
      end == IF query = 0 - 1 THEN Len(url) ELSE query
  IN  IF scheme < 1 THEN [outcome |-> "thrown", value |-> <<>>]
      ELSE IF slash = 0 - 1 \/ slash >= end THEN [outcome |-> "returned", value |-> <<"/">>]
      ELSE [outcome |-> "returned", value |-> SubSeq(url, slash + 1, end)]

\* the path component of every url, /v2 or not
extractUriPathPathnameOnly(url) == Pathname(url)

\* extractUriPath(url)
extractUriPath(url) ==
  LET v2Index == IndexOf(url, <<"/", "v", "2">>, 0)
      queryIndex == IndexOf(url, <<"?">>, v2Index)
  IN  IF v2Index # 0 - 1
      THEN [outcome |-> "returned",
            value |-> IF queryIndex = 0 - 1 THEN SubSeq(url, v2Index + 1, Len(url))
                      ELSE SubSeq(url, v2Index + 1, queryIndex)]
      ELSE Pathname(url)

\* only the first of the two values
generateIyziRndFirstOnly(first, second) == first

\* generateIyziRnd(): the decimal texts of two 32-bit values, one after
\* the other
generateIyziRnd(first, second) == first \o second

\* core/errors.ts: what the error objects carry
IyzipayTimeoutError(timeoutMs, path) ==
  [name |-> "IyzipayTimeoutError", timeoutMs |-> timeoutMs, path |-> path]

IyzipayConnectionError(path, cause) ==
  [name |-> "IyzipayConnectionError", path |-> path, cause |-> cause]

IyzipayParseError(httpStatus, path, rawBody, cause) ==
  [name |-> "IyzipayParseError", httpStatus |-> httpStatus, path |-> path,
   rawBody |-> rawBody, cause |-> cause]

\* a thrown value: the class it is an instance of, and its name
Thrown(class, name) == [class |-> class, name |-> name]

\* every error named TimeoutError counts
isTimeoutErrorByName(error) == error.name = "TimeoutError"

\* error instanceof DOMException && error.name === 'TimeoutError'
isTimeoutError(error) == error.class = "DOMException" /\ error.name = "TimeoutError"

\* the value of a JSON text: a number, a string, null, an object without
\* members or with one member whose value is a string
Json(kind, text, members) == [kind |-> kind, text |-> text, members |-> members]

\* JSON.parse(text) for the texts of the model: a text that is no JSON
\* value, the empty text among them, throws a SyntaxError
JSONParse(text) ==
  LET n == Len(text)
      Quote(i) == i >= 1 /\ i <= n /\ text[i] = "\""
      quotes == {i \in 1..n : Quote(i)}
      Returns(v) == [outcome |-> "returned", value |-> v]
  IN  CASE text = <<"n", "u", "l", "l">> -> Returns(Json("null", <<>>, <<>>))
        [] text = <<"{", "}">> -> Returns(Json("object", <<>>, <<>>))
        [] n >= 1 /\ (\A i \in 1..n : text[i] \in {"0", "1", "2", "3", "4", "5", "6", "7", "8", "9"})
             /\ (n > 1 => text[1] # "0") -> Returns(Json("number", text, <<>>))
        [] n >= 2 /\ quotes = {1, n} -> Returns(Json("string", SubSeq(text, 2, n - 1), <<>>))
        [] n >= 7 /\ text[1] = "{" /\ text[n] = "}" /\ Cardinality(quotes) = 4
             /\ Quote(2) /\ Quote(n - 1)
             /\ (\E i \in 3..(n - 4) : Quote(i) /\ text[i + 1] = ":" /\ Quote(i + 2)) ->
             LET i == CHOOSE k \in 3..(n - 4) : Quote(k) /\ text[k + 1] = ":" /\ Quote(k + 2)
             IN  Returns(Json("object", <<>>,
                              <<[key |-> SubSeq(text, 3, i - 1),
                                 value |-> Json("string", SubSeq(text, i + 3, n - 2), <<>>)]>>))
        [] OTHER -> [outcome |-> "thrown", value |-> Thrown("SyntaxError", "SyntaxError")]

HeaderNames(jsonBody) ==
  {"Accept", "Authorization", "x-iyzi-rnd"} \cup
    (IF IsFalsy(jsonBody) THEN {} ELSE {"Content-Type"})

ApplicationJson ==
  <<"a", "p", "p", "l", "i", "c", "a", "t", "i", "o", "n", "/", "j", "s", "o", "n">>

\* the header carries a random key of its own
RequestInitOtherRandomKey(method, authorization, randomKey, jsonBody, timeout) ==
  [method |-> method,
   headers |-> [n \in HeaderNames(jsonBody) |->
                  IF n = "Authorization" THEN authorization
                  ELSE IF n = "x-iyzi-rnd" THEN generateIyziRnd(randomKey, <<"7">>)
                  ELSE ApplicationJson],
   body |-> jsonBody,
   signal |-> timeout]

\* { method, headers, body: jsonBody, signal: AbortSignal.timeout(this.timeout) }
RequestInit(method, authorization, randomKey, jsonBody, timeout) ==
  [method |-> method,
   headers |-> [n \in HeaderNames(jsonBody) |->
                  IF n = "Authorization" THEN authorization
                  ELSE IF n = "x-iyzi-rnd" THEN randomKey
                  ELSE ApplicationJson],
   body |-> jsonBody,
   signal |-> timeout]

\* ------------------------------------------------------------------------
\* lib/signature.ts: response verifiers
\* ------------------------------------------------------------------------

\* priceIndices.includes(i)
ArrayIncludes(arr, x) == \E j \in 1..Len(arr) : arr[j] = x

\* undefined and null values are rendered like the others
joinParamsNoNullCheck(values, priceIndices) ==
  Join([j \in 1..Len(values) |->
          IF ArrayIncludes(priceIndices, j - 1) THEN stripTrailingZeros(values[j])
          ELSE String(values[j])],
       <<":">>)

\* values.map((v, i) => ...).join(':')     (i is the 0-based JS index)
joinParams(values, priceIndices) ==
  Join([j \in 1..Len(values) |->
          IF IsNullish(values[j]) THEN <<>>
          ELSE IF ArrayIncludes(priceIndices, j - 1) THEN stripTrailingZeros(values[j])
          ELSE String(values[j])],
       <<":">>)

\* verify(secretKey, message, signature): the outcome of the promise
verify(secretKey, msg, signature) ==
  timingSafeEqual(hmacSha256Hex(secretKey, msg), signature)

\* the price indices counted from 1
verifyPaymentSignatureMessageIndexFrom1(response) ==
  joinParams(<<response.paymentId, response.currency, response.basketId,
               response.conversationId, response.paidPrice, response.price>>,
             <<5, 6>>)

verifyPaymentSignatureMessage(response) ==
  joinParams(<<response.paymentId, response.currency, response.basketId,
               response.conversationId, response.paidPrice, response.price>>,
             <<4, 5>>)

verifyThreeDSInitSignatureMessage(response) ==
  joinParams(<<response.paymentId, response.conversationId>>, <<>>)

\* export const verifyThreeDSAuthSignature = verifyPaymentSignature
verifyThreeDSAuthSignatureMessage(response) ==
  verifyPaymentSignatureMessage(response)

\* mdStatus and paymentId in each other's place
verifyCallbackSignatureMessageSwapped(callback) ==
  joinParams(<<callback.conversationData, callback.conversationId, callback.paymentId,
               callback.mdStatus, callback.status>>,
             <<>>)

verifyCallbackSignatureMessage(callback) ==
  joinParams(<<callback.conversationData, callback.conversationId, callback.mdStatus,
               callback.paymentId, callback.status>>,
             <<>>)

verifyFormInitSignatureMessage(response) ==
  joinParams(<<response.conversationId, response.token>>, <<>>)

\* the price indices of the payment verifier
verifyFormRetrieveSignatureMessagePaymentIndices(response) ==
  joinParams(<<response.paymentStatus, response.paymentId, response.currency,
               response.basketId, response.conversationId, response.paidPrice,
               response.price, response.token>>,
             <<4, 5>>)

verifyFormRetrieveSignatureMessage(response) ==
  joinParams(<<response.paymentStatus, response.paymentId, response.currency,
               response.basketId, response.conversationId, response.paidPrice,
               response.price, response.token>>,
             <<5, 6>>)

\* the price index counted from 1
verifyRefundSignatureMessageIndexFrom1(response) ==
  joinParams(<<response.paymentId, response.price, response.currency,
               response.conversationId>>,
             <<2>>)

verifyRefundSignatureMessage(response) ==
  joinParams(<<response.paymentId, response.price, response.currency,
               response.conversationId>>,
             <<1>>)

\* ------------------------------------------------------------------------
\* lib/signature.ts: webhooks
\* ------------------------------------------------------------------------

\* A payload is [object, fields]: object tells whether the value is an
\* object at all, fields maps the keys it has to their values.

\* key in payload
HasKey(payload, key) == key \in DOMAIN payload.fields

\* payload.key
Get(payload, key) ==
  IF HasKey(payload, key) THEN payload.fields[key] ELSE Undefined

\* the branch of buildMessage that the two `in` tests select
\* the token test before the subscription test
ShapeOfTokenFirst(payload) ==
  IF HasKey(payload, "token") THEN "hpp"
  ELSE IF HasKey(payload, "subscriptionReferenceCode") THEN "subscription"
  ELSE "direct"

ShapeOf(payload) ==
  IF HasKey(payload, "subscriptionReferenceCode") THEN "subscription"
  ELSE IF HasKey(payload, "token") THEN "hpp"
  ELSE "direct"

\* the merchant id left out of the message
SubscriptionMessageNoMerchant(secretKey, payload, merchantId) ==
  Plus(Plus(Plus(Plus(secretKey, Get(payload, "iyziEventType")),
                 Get(payload, "subscriptionReferenceCode")),
            Get(payload, "orderReferenceCode")),
       Get(payload, "customerReferenceCode"))

SubscriptionMessage(secretKey, payload, merchantId) ==
  Plus(Plus(Plus(Plus(Plus(merchantId, secretKey), Get(payload, "iyziEventType")),
                 Get(payload, "subscriptionReferenceCode")),
            Get(payload, "orderReferenceCode")),
       Get(payload, "customerReferenceCode"))

\* the token left out of the message
HppMessageNoToken(secretKey, payload) ==
  Plus(Plus(Plus(Plus(secretKey, Get(payload, "iyziEventType")),
                 Get(payload, "iyziPaymentId")),
            Get(payload, "paymentConversationId")),
       Get(payload, "status"))

HppMessage(secretKey, payload) ==
  Plus(Plus(Plus(Plus(Plus(secretKey, Get(payload, "iyziEventType")),
                      Get(payload, "iyziPaymentId")),
                 Get(payload, "token")),
            Get(payload, "paymentConversationId")),
       Get(payload, "status"))

\* the fields joined by ':' as in the response verifiers
DirectMessageColonJoined(secretKey, payload) ==
  joinParams(<<secretKey, Get(payload, "iyziEventType"), Get(payload, "paymentId"),
               Get(payload, "paymentConversationId"), Get(payload, "status")>>,
             <<>>)

DirectMessage(secretKey, payload) ==
  Plus(Plus(Plus(Plus(secretKey, Get(payload, "iyziEventType")),
                 Get(payload, "paymentId")),
            Get(payload, "paymentConversationId")),
       Get(payload, "status"))

\* buildMessage(secretKey, payload, merchantId): the string or null it
\* returns and the branch taken; `in` throws a TypeError when payload is
\* not an object
buildMessage(secretKey, payload, merchantId) ==
  IF ~payload.object
  THEN [outcome |-> "thrown", value |-> Null, shape |-> "none"]
  ELSE IF ShapeOf(payload) = "subscription"
  THEN IF IsFalsy(merchantId)
       THEN [outcome |-> "returned", value |-> Null, shape |-> "subscription"]
       ELSE [outcome |-> "returned",
             value |-> SubscriptionMessage(secretKey, payload, merchantId),
             shape |-> "subscription"]
  ELSE IF ShapeOf(payload) = "hpp"
  THEN [outcome |-> "returned", value |-> HppMessage(secretKey, payload), shape |-> "hpp"]
  ELSE [outcome |-> "returned", value |-> DirectMessage(secretKey, payload),
        shape |-> "direct"]

\* where a call stands when it first yields: settled, or awaiting the digest
Settled(how, value, text, calls, branch) ==
  [pc |-> "done", outcome |-> how, result |-> value, out |-> text, message |-> <<>>,
   trace |-> calls, shape |-> branch]

Awaiting(msg, calls, branch) ==
  [pc |-> "await_hmac", outcome |-> "none", result |-> FALSE, out |-> <<>>,
   message |-> msg, trace |-> calls, shape |-> branch]

\* the message built before the signature is looked at
verifyWebhookSignatureStartBuildFirst(secretKey, payload, signature, merchantId) ==
  LET b == buildMessage(secretKey, payload, merchantId)
  IN  IF b.outcome = "thrown"
      THEN Settled("thrown", FALSE, <<>>, <<"buildMessage">>, "none")
      ELSE IF IsFalsy(signature) \/ b.value = Null
      THEN Settled("returned", FALSE, <<>>, <<"buildMessage">>, b.shape)
      ELSE Awaiting(b.value, <<"buildMessage", "hmacSha256Hex">>, b.shape)

\* verifyWebhookSignature up to its await
verifyWebhookSignatureStart(secretKey, payload, signature, merchantId) ==
  IF IsFalsy(signature) THEN Settled("returned", FALSE, <<>>, <<>>, "none")
  ELSE LET b == buildMessage(secretKey, payload, merchantId)
       IN  IF b.outcome = "thrown"
           THEN Settled("thrown", FALSE, <<>>, <<"buildMessage">>, "none")
           ELSE IF b.value = Null
           THEN Settled("returned", FALSE, <<>>, <<"buildMessage">>, b.shape)
           ELSE Awaiting(b.value, <<"buildMessage", "hmacSha256Hex">>, b.shape)

\* the null that buildMessage returns goes on to be hashed
generateWebhookTestSignatureStartNoNullCheck(secretKey, payload, merchantId) ==
  LET b == buildMessage(secretKey, payload, merchantId)
  IN  IF b.outcome = "thrown"
      THEN Settled("thrown", FALSE, <<>>, <<"buildMessage">>, "none")
      ELSE Awaiting(String(b.value), <<"buildMessage", "hmacSha256Hex">>, b.shape)

\* generateWebhookTestSignature up to its await
generateWebhookTestSignatureStart(secretKey, payload, merchantId) ==
  LET b == buildMessage(secretKey, payload, merchantId)
  IN  IF b.outcome = "thrown"
      THEN Settled("thrown", FALSE, <<>>, <<"buildMessage">>, "none")
      ELSE IF b.value = Null
      THEN Settled("returned", FALSE, <<>>, <<"buildMessage">>, b.shape)
      ELSE Awaiting(b.value, <<"buildMessage", "hmacSha256Hex">>, b.shape)

\* ------------------------------------------------------------------------
\* Inputs
\* ------------------------------------------------------------------------

SecretKeys == {<<"k">>, <<"s", "k">>}

ApiKeys == {<<"a">>, <<"a", "k">>}

RandomKeys == {<<"r">>, <<"r", "1">>}

UriPaths == {<<"/", "p">>, <<"/", "v", "2">>}

Bodies == {Undefined, Null, <<>>, <<"{", "}">>}

IdVals == {<<"a">>, <<"1", ".", "0">>}

OptVals == IdVals \cup {Undefined, Null}

AmountBases == {<<"1">>, <<"1", ".">>, <<"1", ".", "5">>}

Amounts == {base \o Zeros(k) : base \in AmountBases, k \in 0..MaxZeros} \cup {Undefined, Null}

PaymentResponses ==
  [paymentId : IdVals, currency : IdVals, basketId : OptVals, conversationId : OptVals,
   paidPrice : Amounts, price : Amounts]

ThreeDSInitResponses == [paymentId : IdVals, conversationId : OptVals]

Callbacks ==
  [conversationData : OptVals, conversationId : OptVals, mdStatus : IdVals,
   paymentId : IdVals, status : IdVals]

FormInitResponses == [conversationId : OptVals, token : IdVals]

FormRetrieveResponses ==
  [paymentStatus : IdVals, paymentId : IdVals, currency : IdVals, basketId : OptVals,
   conversationId : OptVals, paidPrice : Amounts, price : Amounts, token : IdVals]

RefundResponses ==
  [paymentId : IdVals, price : Amounts, currency : IdVals, conversationId : OptVals]

\* the response object as received: the signed fields and the signature
WithSignature(r, signature) ==
  [f \in DOMAIN r \cup {"signature"} |-> IF f = "signature" THEN signature ELSE r[f]]

\* ------------------------------------------------------------------------
\* The provider's side: which signature arrives with a response
\* ------------------------------------------------------------------------

\* the fields joined by ':', those at the positions in amounts (counted
\* from 1) without their trailing zeros, absent ones empty
ColonJoin(fields, amounts) ==
  Join([j \in 1..Len(fields) |->
          IF fields[j] = Undefined \/ fields[j] = Null THEN <<>>
          ELSE IF j \in amounts THEN stripTrailingZeros(fields[j])
          ELSE fields[j]],
       <<":">>)

\* a digest with its last character altered
Tamper(digest) == [digest EXCEPT ![Len(digest)] = "x"]

\* a digest with one character altered, at any one position, or one
\* character longer, or one character shorter
Tampered(digest) ==
  {[digest EXCEPT ![i] = "x"] : i \in 1..Len(digest)}
    \cup {Append(digest, "0"), SubSeq(digest, 1, Len(digest) - 1)}

\* the signature is the provider's, or one made with another key, or one
\* made with another canonicalization, or altered, or empty, or missing
SignatureChoices(secretKey, fields, amounts) ==
  {hmacSha256Hex(secretKey, ColonJoin(fields, S)) : S \in {amounts, {}, 1..Len(fields)}}
    \cup {hmacSha256Hex(k, ColonJoin(fields, amounts)) : k \in SecretKeys}
    \cup Tampered(hmacSha256Hex(secretKey, ColonJoin(fields, amounts)))
    \cup {<<>>, Undefined}

PaymentSignedFields(r) ==
  <<r.paymentId, r.currency, r.basketId, r.conversationId, r.paidPrice, r.price>>

ThreeDSInitSignedFields(r) == <<r.paymentId, r.conversationId>>

CallbackSignedFields(r) ==
  <<r.conversationData, r.conversationId, r.mdStatus, r.paymentId, r.status>>

FormInitSignedFields(r) == <<r.conversationId, r.token>>

FormRetrieveSignedFields(r) ==
  <<r.paymentStatus, r.paymentId, r.currency, r.basketId, r.conversationId,
    r.paidPrice, r.price, r.token>>

RefundSignedFields(r) == <<r.paymentId, r.price, r.currency, r.conversationId>>

\* ------------------------------------------------------------------------
\* Webhook deliveries
\* ------------------------------------------------------------------------

EventTypes == {<<"e">>}

Statuses == {<<"s">>, <<"f">>}

PaymentIds == {<<"a">>, <<"a", "b">>}

Tokens == {<<"b">>, <<"t">>}

ConversationIds == {<<"c">>}

SubscriptionRefs == {<<"a">>, <<"a", "b">>}

OrderRefs == {<<"b">>, <<"o">>}

CustomerRefs == {<<"c">>}

MerchantIds == {Undefined, <<>>, <<"m">>, <<"n">>}

Obj(f) == [object |-> TRUE, fields |-> f]

NotAnObject == [object |-> FALSE, fields |-> <<>>]

DirectKeys == {"iyziEventType", "paymentId", "paymentConversationId", "status"}

HppKeys == {"iyziEventType", "iyziPaymentId", "token", "paymentConversationId", "status"}

SubscriptionKeys ==
  {"iyziEventType", "subscriptionReferenceCode", "orderReferenceCode", "customerReferenceCode"}

DirectPayloads ==
  {Obj([iyziEventType |-> e, paymentId |-> p, paymentConversationId |-> c, status |-> st]) :
     e \in EventTypes, p \in PaymentIds, c \in ConversationIds, st \in Statuses}

HppPayloads ==
  {Obj([iyziEventType |-> e, iyziPaymentId |-> p, token |-> t,
        paymentConversationId |-> c, status |-> st]) :
     e \in EventTypes, p \in PaymentIds, t \in Tokens, c \in ConversationIds, st \in Statuses}

SubscriptionPayloads ==
  {Obj([iyziEventType |-> e, subscriptionReferenceCode |-> sr, orderReferenceCode |-> o,
        customerReferenceCode |-> cr]) :
     e \in EventTypes, sr \in SubscriptionRefs, o \in OrderRefs, cr \in CustomerRefs}

\* payloads outside the three declared types
OddPayloads ==
  {Obj(<<>>),
   Obj([token |-> <<"t">>]),
   Obj([iyziEventType |-> <<"e">>, iyziPaymentId |-> <<"a">>, token |-> Undefined,
        paymentConversationId |-> <<"c">>, status |-> <<"s">>]),
   Obj([subscriptionReferenceCode |-> Undefined]),
   Obj([iyziEventType |-> <<"e">>, subscriptionReferenceCode |-> <<"a">>,
        orderReferenceCode |-> <<"b">>, customerReferenceCode |-> <<"c">>,
        token |-> <<"t">>]),
   NotAnObject}

WebhookPayloads == DirectPayloads \cup HppPayloads \cup SubscriptionPayloads \cup OddPayloads

\* a field in the text of a message: a field the payload lacks reads as
\* undefined
Field(p, key) == String(IF key \in DOMAIN p.fields THEN p.fields[key] ELSE Undefined)

DirectText(secretKey, p) ==
  secretKey \o Field(p, "iyziEventType") \o Field(p, "paymentId") \o
  Field(p, "paymentConversationId") \o Field(p, "status")

HppText(secretKey, p) ==
  secretKey \o Field(p, "iyziEventType") \o Field(p, "iyziPaymentId") \o Field(p, "token") \o
  Field(p, "paymentConversationId") \o Field(p, "status")

SubscriptionText(merchantId, secretKey, p) ==
  merchantId \o secretKey \o Field(p, "iyziEventType") \o
  Field(p, "subscriptionReferenceCode") \o Field(p, "orderReferenceCode") \o
  Field(p, "customerReferenceCode")

\* merchant ids as strings
MerchantStrings == {m \in MerchantIds : m # Undefined /\ m # Null}

\* the X-IYZ-SIGNATURE-V3 value that arrives: the provider's under any of
\* the three rules, one altered, an empty or missing one, or the one the
\* last generateWebhookTestSignature call returned
WebhookSignatureChoices(secretKey, p) ==
  {hmacSha256Hex(secretKey, DirectText(secretKey, p)),
   hmacSha256Hex(secretKey, HppText(secretKey, p)),
   Tamper(hmacSha256Hex(secretKey, DirectText(secretKey, p))),
   <<>>, Undefined}
    \cup Tampered(hmacSha256Hex(secretKey, DirectText(secretKey, p)))
    \cup {hmacSha256Hex(secretKey, SubscriptionText(m, secretKey, p)) : m \in MerchantStrings}
    \cup (IF gen.has THEN {gen.out} ELSE {})

\* nothing has been handed to fetch
NoFetch == [called |-> FALSE, url |-> <<>>, init |-> <<>>]

\* the calls that can be in flight together, and the frame of a call that
\* has not been made: the arguments and locals of generateAuthHeader,
\* verify, verifyWebhookSignature or request, those of the hmacSha256Hex
\* call inside it (secret, message, key), and what it handed to fetch
CallIds == 1..MaxCalls

NoFrame ==
  [kind |-> "none", pc |-> "idle", args |-> <<>>, secret |-> <<>>, message |-> <<>>,
   key |-> <<>>, outcome |-> "none", result |-> <<>>, fetched |-> NoFetch]

NoGen == [has |-> FALSE, secretKey |-> <<>>, payload |-> NotAnObject, merchantId |-> Undefined,
          shape |-> "none", out |-> <<>>]

Init ==
  /\ pc = "idle"
  /\ op = "none"
  /\ args = <<>>
  /\ message = <<>>
  /\ hmacKey = <<>>
  /\ shape = "none"
  /\ outcome = "none"
  /\ result = FALSE
  /\ out = <<>>
  /\ trace = <<>>
  /\ gen = NoGen
  /\ fetched = NoFetch
  /\ frames = [i \in CallIds |-> NoFrame]

\* the caller takes the settled promise; the next call starts from scratch
Return ==
  /\ pc = "done"
  /\ pc' = "idle"
  /\ op' = "none"
  /\ args' = <<>>
  /\ message' = <<>>
  /\ hmacKey' = <<>>
  /\ shape' = "none"
  /\ outcome' = "none"
  /\ result' = FALSE
  /\ out' = <<>>
  /\ trace' = <<>>
  /\ fetched' = NoFetch
  /\ UNCHANGED <<gen, frames>>

\* ------------------------------------------------------------------------
\* generateAuthHeader as a process: call up to the await, then the rest
\* ------------------------------------------------------------------------

CallGenerateAuthHeader ==
  /\ pc = "idle"
  /\ \E apiKey \in ApiKeys, secretKey \in SecretKeys, randomKey \in RandomKeys,
        uriPath \in UriPaths, body \in Bodies :
       /\ args' = [apiKey |-> apiKey, secretKey |-> secretKey, randomKey |-> randomKey,
                   uriPath |-> uriPath, body |-> body]
       /\ message' = AuthMessage(randomKey, uriPath, body)
       /\ hmacKey' = secretKey
  /\ op' = "generateAuthHeader"
  /\ pc' = "await_hmac"
  /\ trace' = <<"hmacSha256Hex">>
  /\ UNCHANGED <<shape, outcome, result, out, gen, fetched, frames>>

ResumeGenerateAuthHeader ==
  /\ pc = "await_hmac"
  /\ op = "generateAuthHeader"
  /\ out' = generateAuthHeader(args.apiKey, args.secretKey, args.randomKey,
                               args.uriPath, args.body)
  /\ outcome' = "returned"
  /\ pc' = "done"
  /\ trace' = Append(trace, "btoa")
  /\ UNCHANGED <<op, args, message, hmacKey, shape, result, gen, fetched, frames>>

NextAuth == CallGenerateAuthHeader \/ ResumeGenerateAuthHeader \/ Return

SpecAuth == Init /\ [][NextAuth]_vars

\* ------------------------------------------------------------------------
\* Response verifiers as processes: the call builds the message and awaits
\* hmacSha256Hex inside verify; the rest of verify compares and settles
\* ------------------------------------------------------------------------

ResponseVerifiers ==
  {"verifyPaymentSignature", "verifyThreeDSInitSignature", "verifyThreeDSAuthSignature",
   "verifyCallbackSignature", "verifyFormInitSignature", "verifyFormRetrieveSignature",
   "verifyRefundSignature"}

\* the verifier has built its message and called verify, which awaits
\* hmacSha256Hex(secretKey, message)
StartVerify(name, secretKey, response, msg) ==
  /\ op' = name
  /\ args' = [secretKey |-> secretKey, response |-> response]
  /\ message' = msg
  /\ hmacKey' = secretKey
  /\ pc' = "await_hmac"
  /\ trace' = <<"joinParams", "hmacSha256Hex">>
  /\ UNCHANGED <<shape, outcome, result, out, gen, fetched, frames>>

verifyPaymentSignature ==
  /\ pc = "idle"
  /\ \E secretKey \in SecretKeys, r \in PaymentResponses :
       \E signature \in SignatureChoices(secretKey, PaymentSignedFields(r), {5, 6}) :
         StartVerify("verifyPaymentSignature", secretKey, WithSignature(r, signature),
                     verifyPaymentSignatureMessage(WithSignature(r, signature)))

verifyThreeDSInitSignature ==
  /\ pc = "idle"
  /\ \E secretKey \in SecretKeys, r \in ThreeDSInitResponses :
       \E signature \in SignatureChoices(secretKey, ThreeDSInitSignedFields(r), {}) :
         StartVerify("verifyThreeDSInitSignature", secretKey, WithSignature(r, signature),
                     verifyThreeDSInitSignatureMessage(WithSignature(r, signature)))

verifyThreeDSAuthSignature ==
  /\ pc = "idle"
  /\ \E secretKey \in SecretKeys, r \in PaymentResponses :
       \E signature \in SignatureChoices(secretKey, PaymentSignedFields(r), {5, 6}) :
         StartVerify("verifyThreeDSAuthSignature", secretKey, WithSignature(r, signature),
                     verifyThreeDSAuthSignatureMessage(WithSignature(r, signature)))

verifyCallbackSignature ==
  /\ pc = "idle"
  /\ \E secretKey \in SecretKeys, r \in Callbacks :
       \E signature \in SignatureChoices(secretKey, CallbackSignedFields(r), {}) :
         StartVerify("verifyCallbackSignature", secretKey, WithSignature(r, signature),
                     verifyCallbackSignatureMessage(WithSignature(r, signature)))

verifyFormInitSignature ==
  /\ pc = "idle"
  /\ \E secretKey \in SecretKeys, r \in FormInitResponses :
       \E signature \in SignatureChoices(secretKey, FormInitSignedFields(r), {}) :
         StartVerify("verifyFormInitSignature", secretKey, WithSignature(r, signature),
                     verifyFormInitSignatureMessage(WithSignature(r, signature)))

verifyFormRetrieveSignature ==
  /\ pc = "idle"
  /\ \E secretKey \in SecretKeys, r \in FormRetrieveResponses :
       \E signature \in SignatureChoices(secretKey, FormRetrieveSignedFields(r), {6, 7}) :
         StartVerify("verifyFormRetrieveSignature", secretKey, WithSignature(r, signature),
                     verifyFormRetrieveSignatureMessage(WithSignature(r, signature)))

verifyRefundSignature ==
  /\ pc = "idle"
  /\ \E secretKey \in SecretKeys, r \in RefundResponses :
       \E signature \in SignatureChoices(secretKey, RefundSignedFields(r), {2}) :
         StartVerify("verifyRefundSignature", secretKey, WithSignature(r, signature),
                     verifyRefundSignatureMessage(WithSignature(r, signature)))

\* verify after the await: timingSafeEqual(expected, signature)
ResumeVerify ==
  /\ pc = "await_hmac"
  /\ op \in ResponseVerifiers
  /\ LET r == verify(hmacKey, message, args.response.signature)
     IN  /\ outcome' = r.outcome
         /\ result' = r.value
  /\ pc' = "done"
  /\ trace' = Append(trace, "timingSafeEqual")
  /\ UNCHANGED <<op, args, message, hmacKey, shape, out, gen, fetched, frames>>

NextResponse ==
  \/ verifyPaymentSignature
  \/ verifyThreeDSInitSignature
  \/ verifyThreeDSAuthSignature
  \/ verifyCallbackSignature
  \/ verifyFormInitSignature
  \/ verifyFormRetrieveSignature
  \/ verifyRefundSignature
  \/ ResumeVerify
  \/ Return

SpecResponse == Init /\ [][NextResponse]_vars

\* ------------------------------------------------------------------------
\* Webhook verification and test signatures as processes
\* ------------------------------------------------------------------------

\* the call runs to its first await or to its return
Enter(name, a, st) ==
  /\ op' = name
  /\ args' = a
  /\ pc' = st.pc
  /\ outcome' = st.outcome
  /\ result' = st.result
  /\ out' = st.out
  /\ message' = st.message
  /\ hmacKey' = IF st.pc = "await_hmac" THEN a.secretKey ELSE <<>>
  /\ trace' = st.trace
  /\ shape' = st.shape

CallVerifyWebhookSignature ==
  /\ pc = "idle"
  /\ \E secretKey \in SecretKeys, payload \in WebhookPayloads, merchantId \in MerchantIds :
       \E signature \in WebhookSignatureChoices(secretKey, payload) :
         Enter("verifyWebhookSignature",
               [secretKey |-> secretKey, payload |-> payload, signature |-> signature,
                merchantId |-> merchantId],
               verifyWebhookSignatureStart(secretKey, payload, signature, merchantId))
  /\ UNCHANGED <<gen, fetched, frames>>

\* const expected = await hmacSha256Hex(...); return timingSafeEqual(expected, signature)
ResumeVerifyWebhookSignature ==
  /\ pc = "await_hmac"
  /\ op = "verifyWebhookSignature"
  /\ LET r == timingSafeEqual(hmacSha256Hex(hmacKey, message), args.signature)
     IN  /\ outcome' = r.outcome
         /\ result' = r.value
  /\ pc' = "done"
  /\ trace' = Append(trace, "timingSafeEqual")
  /\ UNCHANGED <<op, args, message, hmacKey, shape, out, gen, fetched, frames>>

\* what the caller keeps of a generateWebhookTestSignature call that returned
Generated(a, branch, text) ==
  [has |-> TRUE, secretKey |-> a.secretKey, payload |-> a.payload,
   merchantId |-> a.merchantId, shape |-> branch, out |-> text]

CallGenerateWebhookTestSignature ==
  /\ pc = "idle"
  /\ \E secretKey \in SecretKeys, payload \in WebhookPayloads, merchantId \in MerchantIds :
       LET a == [secretKey |-> secretKey, payload |-> payload, merchantId |-> merchantId]
           st == generateWebhookTestSignatureStart(secretKey, payload, merchantId)
       IN  /\ Enter("generateWebhookTestSignature", a, st)
           /\ gen' = IF st.pc = "done" /\ st.outcome = "returned"
                     THEN Generated(a, st.shape, st.out)
                     ELSE gen
  /\ UNCHANGED <<fetched, frames>>

\* return hmacSha256Hex(secretKey, message)
ResumeGenerateWebhookTestSignature ==
  /\ pc = "await_hmac"
  /\ op = "generateWebhookTestSignature"
  /\ out' = hmacSha256Hex(hmacKey, message)
  /\ outcome' = "returned"
  /\ pc' = "done"
  /\ gen' = Generated(args, shape, hmacSha256Hex(hmacKey, message))
  /\ UNCHANGED <<op, args, message, hmacKey, shape, result, trace, fetched, frames>>

NextWebhook ==
  \/ CallVerifyWebhookSignature
  \/ ResumeVerifyWebhookSignature
  \/ CallGenerateWebhookTestSignature
  \/ ResumeGenerateWebhookTestSignature
  \/ Return

SpecWebhook == Init /\ [][NextWebhook]_vars

\* ------------------------------------------------------------------------
\* The library functions called on their own: timingSafeEqual,
\* stripTrailingZeros, formatPrice
\* ------------------------------------------------------------------------

Chars == {"0", "1", "."}

\* every string of at most MaxStrLen characters
Texts == UNION {[1..n -> Chars] : n \in 0..MaxStrLen}

\* a synchronous call: it has returned when the caller looks again
Returned(name, a, value, text) ==
  /\ op' = name
  /\ args' = a
  /\ outcome' = "returned"
  /\ result' = value
  /\ out' = text
  /\ pc' = "done"
  /\ UNCHANGED <<message, hmacKey, shape, trace, gen, fetched, frames>>

\* one entry for each pass through the body of a loop
Passes(n) == [i \in 1..n |-> "for"]

CallTimingSafeEqual ==
  /\ pc = "idle"
  /\ \E a \in Texts, b \in Texts :
       LET r == timingSafeEqual(a, b)
       IN  /\ op' = "timingSafeEqual"
           /\ args' = [a |-> a, b |-> b]
           /\ outcome' = r.outcome
           /\ result' = r.value
           /\ trace' = Passes(r.iterations)
           /\ pc' = "done"
           /\ UNCHANGED <<message, hmacKey, shape, out, gen, fetched, frames>>

CallStripTrailingZeros ==
  /\ pc = "idle"
  /\ \E value \in Texts :
       Returned("stripTrailingZeros", [value |-> value], FALSE, stripTrailingZeros(value))

CallFormatPrice ==
  /\ pc = "idle"
  /\ \E price \in Texts :
       Returned("formatPrice", [price |-> price], FALSE, formatPrice(price))

NextLib ==
  \/ CallTimingSafeEqual
  \/ CallStripTrailingZeros
  \/ CallFormatPrice
  \/ Return

SpecLib == Init /\ [][NextLib]_vars

\* ------------------------------------------------------------------------
\* HttpClient requests as processes: buildRequestInit up to the await inside
\* generateAuthHeader, the call of fetch, the response, its text
\* ------------------------------------------------------------------------

\* a base url with a trailing slash, one with a path of its own, and one
\* without a scheme
BaseUrls ==
  {<<"h", ":", "/", "/", "x", "/">>, <<"h", ":", "/", "/", "x", "/", "a">>, <<"x">>}

\* paths with and without /v2, with a query string, with /v2 twice, and
\* with /v2 only inside the query string
Paths ==
  {<<"/", "p">>, <<"/", "v", "2", "/", "p">>, <<"/", "p", "?", "q">>,
   <<"/", "v", "2", "/", "p", "?", "q">>, <<"/", "a", "/", "v", "2", "/", "v", "2">>,
   <<"/", "p", "?", "/", "v", "2">>}

TimeoutOptions == {Undefined, <<"5">>}

ClientOptions ==
  [apiKey : ApiKeys, secretKey : SecretKeys, baseUrl : BaseUrls, timeout : TimeoutOptions]

RequestBodies ==
  {Value("undefined", <<>>), Value("null", <<>>), Value("string", <<>>),
   Value("string", <<"a">>), Value("object", <<>>), Value("function", <<>>)}

\* the decimal texts of the 32-bit values that crypto.getRandomValues gives
Uint32Values == {<<"0">>, <<"1", "0">>}

\* no response yet, nothing rejected yet
NoResponse == [received |-> FALSE, status |-> <<>>]

NoRejection == Thrown("none", "none")

\* request(method, path, body) on a client made from options, up to the
\* first await that yields: new URL throwing rejects the request before
\* anything is sent
StartRequest(method, options, path, body, randomKey) ==
  LET client == HttpClient(options)
      jsonBody == JsonBody(body)
      uriPath == extractUriPath(client.baseUrl \o path)
  IN  /\ op' = "request"
      /\ args' = [options |-> options, client |-> client, method |-> method, path |-> path,
                  body |-> body, jsonBody |-> jsonBody, randomKey |-> randomKey,
                  uriPath |-> uriPath.value, response |-> NoResponse,
                  rejection |-> NoRejection, text |-> Undefined]
      /\ IF uriPath.outcome = "thrown"
         THEN /\ pc' = "done"
              /\ outcome' = "thrown"
              /\ out' = Thrown("TypeError", "TypeError")
              /\ message' = <<>>
              /\ hmacKey' = <<>>
              /\ trace' = <<"generateIyziRnd", "extractUriPath">>
         ELSE /\ pc' = "await_hmac"
              /\ outcome' = "none"
              /\ out' = <<>>
              /\ message' = AuthMessage(randomKey, uriPath.value, jsonBody)
              /\ hmacKey' = client.secretKey
              /\ trace' = <<"generateIyziRnd", "extractUriPath", "generateAuthHeader",
                            "hmacSha256Hex">>
      /\ UNCHANGED <<shape, result, gen, fetched, frames>>

get ==
  /\ pc = "idle"
  /\ \E options \in ClientOptions, path \in Paths, first \in Uint32Values,
        second \in Uint32Values :
       StartRequest("GET", options, path, Value("undefined", <<>>),
                    generateIyziRnd(first, second))

post ==
  /\ pc = "idle"
  /\ \E options \in ClientOptions, path \in Paths, body \in RequestBodies,
        first \in Uint32Values, second \in Uint32Values :
       StartRequest("POST", options, path, body, generateIyziRnd(first, second))

put ==
  /\ pc = "idle"
  /\ \E options \in ClientOptions, path \in Paths, body \in RequestBodies,
        first \in Uint32Values, second \in Uint32Values :
       StartRequest("PUT", options, path, body, generateIyziRnd(first, second))

delete ==
  /\ pc = "idle"
  /\ \E options \in ClientOptions, path \in Paths, body \in RequestBodies,
        first \in Uint32Values, second \in Uint32Values :
       StartRequest("DELETE", options, path, body, generateIyziRnd(first, second))

patch ==
  /\ pc = "idle"
  /\ \E options \in ClientOptions, path \in Paths, body \in RequestBodies,
        first \in Uint32Values, second \in Uint32Values :
       StartRequest("PATCH", options, path, body, generateIyziRnd(first, second))

\* the rest of buildRequestInit, and send up to its await: fetch is called
ResumeBuildRequestInit ==
  /\ pc = "await_hmac"
  /\ op = "request"
  /\ LET authorization == generateAuthHeader(args.client.apiKey, args.client.secretKey,
                                             args.randomKey, args.uriPath, args.jsonBody)
     IN  fetched' = [called |-> TRUE,
                     url |-> args.client.baseUrl \o args.path,
                     init |-> RequestInit(args.method, authorization, args.randomKey,
                                          args.jsonBody, args.client.timeout)]
  /\ pc' = "await_fetch"
  /\ trace' = trace \o <<"btoa", "fetch">>
  /\ UNCHANGED <<op, args, message, hmacKey, shape, outcome, result, out, gen, frames>>

\* what fetch and response.text() reject with: the DOMException of
\* AbortSignal.timeout, a TypeError of the network, and an Error that is no
\* DOMException but carries the name TimeoutError
Rejections ==
  {Thrown("DOMException", "TimeoutError"), Thrown("TypeError", "TypeError"),
   Thrown("Error", "TimeoutError")}

\* the HTTP status of a response, as the text of the number
HttpStatuses == {<<"2", "0", "0">>, <<"5", "0", "2">>}

\* bodies: none, an HTML page, a JSON number, and an API failure
BodyTexts ==
  {<<>>, <<"<", "h", ">">>, <<"7">>,
   <<"{", "\"", "s", "t", "a", "t", "u", "s", "\"", ":", "\"", "f", "a", "i", "l", "u", "r",
     "e", "\"", "}">>}

\* send: fetch settles with a response or rejects
ResumeSend ==
  /\ pc = "await_fetch"
  /\ op = "request"
  /\ \/ \E status \in HttpStatuses :
          /\ args' = [args EXCEPT !.response = [received |-> TRUE, status |-> status]]
          /\ pc' = "await_text"
          /\ UNCHANGED <<outcome, out>>
     \/ \E error \in Rejections :
          /\ pc' = "done"
          /\ outcome' = "thrown"
          /\ out' = IF isTimeoutError(error)
                    THEN IyzipayTimeoutError(args.client.timeout, args.path)
                    ELSE IyzipayConnectionError(args.path, error)
          /\ args' = [args EXCEPT !.rejection = error]
  /\ UNCHANGED <<op, message, hmacKey, shape, result, trace, gen, fetched, frames>>

\* parse: response.text() rejects, or gives the text that JSON.parse takes
ResumeParse ==
  /\ pc = "await_text"
  /\ op = "request"
  /\ \/ \E error \in Rejections :
          /\ outcome' = "thrown"
          /\ out' = IyzipayConnectionError(args.path, error)
          /\ args' = [args EXCEPT !.rejection = error]
     \/ \E text \in BodyTexts :
          LET parsed == JSONParse(text)
          IN  /\ args' = [args EXCEPT !.text = text]
              /\ IF parsed.outcome = "thrown"
                 THEN /\ outcome' = "thrown"
                      /\ out' = IyzipayParseError(args.response.status, args.path, text,
                                                  parsed.value)
                 ELSE /\ outcome' = "returned"
                      /\ out' = parsed.value
  /\ pc' = "done"
  /\ UNCHANGED <<op, message, hmacKey, shape, result, trace, gen, fetched, frames>>

NextHttp ==
  \/ get
  \/ post
  \/ put
  \/ delete
  \/ patch
  \/ ResumeBuildRequestInit
  \/ ResumeSend
  \/ ResumeParse
  \/ Return

SpecHttp == Init /\ [][NextHttp]_vars

\* ------------------------------------------------------------------------
\* Calls in flight together: every async function runs up to its next
\* await, and the continuations of different calls interleave in any order.
\* hmacSha256Hex awaits twice: crypto.subtle.importKey, crypto.subtle.sign
\* ------------------------------------------------------------------------

\* everything but the frames
sequential == <<pc, op, args, message, hmacKey, shape, outcome, result, out, trace, gen, fetched>>

\* every call reads the frame of the first call
FrameOfFirst(i) == frames[1]

\* the frame of call i: the arguments and locals of an invocation are its own
Frame(i) == frames[i]

\* the client that the requests in flight are made on
SharedClient ==
  HttpClient([apiKey |-> <<"a">>, secretKey |-> <<"k">>,
              baseUrl |-> <<"h", ":", "/", "/", "x", "/">>, timeout |-> Undefined])

\* the values the random source gives to the calls in flight
DrawnValues == {<<"1">>, <<"1", "1">>}

\* a call has run up to the first await of hmacSha256Hex(secret, msg)
Entered(kind, a, secret, msg) ==
  [NoFrame EXCEPT !.kind = kind, !.pc = "await_importKey", !.args = a, !.secret = secret,
                  !.message = msg]

\* a call has settled without an await
SettledAtOnce(kind, a, how, value) ==
  [NoFrame EXCEPT !.kind = kind, !.pc = "done", !.args = a, !.outcome = how, !.result = value]

\* generateAuthHeader(apiKey, secretKey, randomKey, uriPath, body) is called
StartGenerateAuthHeader ==
  /\ \E i \in CallIds :
       /\ Frame(i).pc = "idle"
       /\ \E secretKey \in SecretKeys, body \in {Undefined, <<"{", "}">>} :
            LET a == [apiKey |-> <<"a">>, secretKey |-> secretKey, randomKey |-> <<"r">>,
                      uriPath |-> <<"/", "p">>, body |-> body]
            IN  frames' = [frames EXCEPT ![i] =
                             Entered("generateAuthHeader", a, secretKey,
                                     AuthMessage(a.randomKey, a.uriPath, a.body))]
  /\ UNCHANGED sequential

\* verifyThreeDSInitSignature(secretKey, response) is called: verify
StartVerifyThreeDSInitSignature ==
  /\ \E i \in CallIds :
       /\ Frame(i).pc = "idle"
       /\ \E secretKey \in SecretKeys :
            LET r == [paymentId |-> <<"a">>, conversationId |-> Null]
                digest == hmacSha256Hex(secretKey, ColonJoin(ThreeDSInitSignedFields(r), {}))
            IN  \E signature \in {digest, Tamper(digest)} :
                  frames' = [frames EXCEPT ![i] =
                               Entered("verifyThreeDSInitSignature",
                                       [secretKey |-> secretKey,
                                        response |-> WithSignature(r, signature)],
                                       secretKey,
                                       verifyThreeDSInitSignatureMessage(
                                         WithSignature(r, signature)))]
  /\ UNCHANGED sequential

\* verifyWebhookSignature(secretKey, payload, signature) is called
StartVerifyWebhookSignature ==
  /\ \E i \in CallIds :
       /\ Frame(i).pc = "idle"
       /\ \E secretKey \in SecretKeys :
            LET payload == Obj([iyziEventType |-> <<"e">>, paymentId |-> <<"a">>,
                                paymentConversationId |-> <<"c">>, status |-> <<"s">>])
                digest == hmacSha256Hex(secretKey, DirectText(secretKey, payload))
            IN  \E signature \in {digest, <<>>} :
                  LET a == [secretKey |-> secretKey, payload |-> payload,
                            signature |-> signature, merchantId |-> Undefined]
                      st == verifyWebhookSignatureStart(secretKey, payload, signature,
                                                        Undefined)
                  IN  frames' = [frames EXCEPT ![i] =
                                   IF st.pc = "done"
                                   THEN SettledAtOnce("verifyWebhookSignature", a,
                                                      st.outcome, st.result)
                                   ELSE Entered("verifyWebhookSignature", a, secretKey,
                                                st.message)]
  /\ UNCHANGED sequential

\* client.post(path, body) is called on the shared client: generateIyziRnd,
\* extractUriPath and generateAuthHeader up to its await
StartClientRequest ==
  /\ \E i \in CallIds :
       /\ Frame(i).pc = "idle"
       /\ \E first \in DrawnValues, second \in DrawnValues :
            LET path == <<"/", "v", "2", "/", "p">>
                body == Value("object", <<>>)
                randomKey == generateIyziRnd(first, second)
                uriPath == extractUriPath(SharedClient.baseUrl \o path).value
                a == [method |-> "POST", path |-> path, body |-> body,
                      jsonBody |-> JsonBody(body), first |-> first, second |-> second,
                      randomKey |-> randomKey, uriPath |-> uriPath]
            IN  frames' = [frames EXCEPT ![i] =
                             Entered("request", a, SharedClient.secretKey,
                                     AuthMessage(randomKey, uriPath, a.jsonBody))]
  /\ UNCHANGED sequential

\* const key = await crypto.subtle.importKey('raw', encoder.encode(secret), ...)
ResumeImportKey ==
  /\ \E i \in CallIds :
       /\ Frame(i).pc = "await_importKey"
       /\ frames' = [frames EXCEPT ![i].key = Frame(i).secret, ![i].pc = "await_sign"]
  /\ UNCHANGED sequential

\* const buffer = await crypto.subtle.sign('HMAC', key, encoder.encode(message)),
\* the hex text of it, and the caller of hmacSha256Hex up to its next await
ResumeSign ==
  /\ \E i \in CallIds :
       /\ Frame(i).pc = "await_sign"
       /\ LET f == Frame(i)
              hex == hmacSha256Hex(f.key, f.message)
          IN  CASE f.kind = "generateAuthHeader" ->
                     frames' = [frames EXCEPT
                                  ![i].pc = "done",
                                  ![i].outcome = "returned",
                                  ![i].result = HeaderPrefix \o
                                    btoa(AuthString(f.args.apiKey, f.args.randomKey, hex))]
                [] f.kind = "verifyThreeDSInitSignature" ->
                     frames' = [frames EXCEPT
                                  ![i].pc = "done",
                                  ![i].outcome =
                                    timingSafeEqual(hex, f.args.response.signature).outcome,
                                  ![i].result =
                                    timingSafeEqual(hex, f.args.response.signature).value]
                [] f.kind = "verifyWebhookSignature" ->
                     frames' = [frames EXCEPT
                                  ![i].pc = "done",
                                  ![i].outcome = timingSafeEqual(hex, f.args.signature).outcome,
                                  ![i].result = timingSafeEqual(hex, f.args.signature).value]
                [] OTHER ->
                     frames' = [frames EXCEPT
                                  ![i].pc = "await_fetch",
                                  ![i].fetched =
                                    [called |-> TRUE,
                                     url |-> SharedClient.baseUrl \o f.args.path,
                                     init |-> RequestInit(
                                       f.args.method,
                                       HeaderPrefix \o
                                         btoa(AuthString(SharedClient.apiKey,
                                                         f.args.randomKey, hex)),
                                       f.args.randomKey, f.args.jsonBody,
                                       SharedClient.timeout)]]
  /\ UNCHANGED sequential

\* send: fetch settles with a response, or rejects as the timeout fires
ResumeFetch ==
  /\ \E i \in CallIds :
       /\ Frame(i).pc = "await_fetch"
       /\ \/ frames' = [frames EXCEPT ![i].pc = "await_text"]
          \/ \E error \in {Thrown("DOMException", "TimeoutError")} :
               frames' = [frames EXCEPT
                            ![i].pc = "done",
                            ![i].outcome = "thrown",
                            ![i].result =
                              IF isTimeoutError(error)
                              THEN IyzipayTimeoutError(SharedClient.timeout, Frame(i).args.path)
                              ELSE IyzipayConnectionError(Frame(i).args.path, error)]
  /\ UNCHANGED sequential

\* parse: response.text() gives the text that JSON.parse takes
ResumeText ==
  /\ \E i \in CallIds :
       /\ Frame(i).pc = "await_text"
       /\ \E text \in {<<"7">>, <<>>} :
            LET parsed == JSONParse(text)
            IN  frames' = [frames EXCEPT
                             ![i].pc = "done",
                             ![i].outcome = parsed.outcome,
                             ![i].result =
                               IF parsed.outcome = "thrown"
                               THEN IyzipayParseError(<<"2", "0", "0">>, Frame(i).args.path,
                                                      text, parsed.value)
                               ELSE parsed.value]
  /\ UNCHANGED sequential

NextConcurrent ==
  \/ StartGenerateAuthHeader
  \/ StartVerifyThreeDSInitSignature
  \/ StartVerifyWebhookSignature
  \/ StartClientRequest
  \/ ResumeImportKey
  \/ ResumeSign
  \/ ResumeFetch
  \/ ResumeText

SpecConcurrent == Init /\ [][NextConcurrent]_vars

\* ------------------------------------------------------------------------
\* All verifiers of received signatures: responses and webhook deliveries
\* ------------------------------------------------------------------------

NextVerifiers ==
  \/ NextResponse
  \/ CallVerifyWebhookSignature
  \/ ResumeVerifyWebhookSignature

SpecVerifiers == Init /\ [][NextVerifiers]_vars

\* ------------------------------------------------------------------------
\* C1
\* ------------------------------------------------------------------------

\* the body's contribution to the signed message: nothing when it is absent
BodyText(body) == IF body = Undefined \/ body = Null THEN <<>> ELSE body

\* "IYZWSv2 " + base64("apiKey:" + apiKey + "&randomKey:" + randomKey +
\* "&signature:" + hmacHex(secretKey, randomKey + uriPath + body))
ExpectedAuthHeader(apiKey, secretKey, randomKey, uriPath, body) ==
  <<"I", "Y", "Z", "W", "S", "v", "2", " ">> \o
  btoa(<<"a", "p", "i", "K", "e", "y", ":">> \o apiKey \o
       <<"&", "r", "a", "n", "d", "o", "m", "K", "e", "y", ":">> \o randomKey \o
       <<"&", "s", "i", "g", "n", "a", "t", "u", "r", "e", ":">> \o
       hmacSha256Hex(secretKey, randomKey \o uriPath \o BodyText(body)))

\* C1: generateAuthHeader resolves to exactly "IYZWSv2 " + base64 of
\* apiKey:<apiKey>&randomKey:<randomKey>&signature:<sig>, with
\* sig = hmacHex(secretKey, randomKey + uriPath + body); an absent body
\* contributes the empty string, so it gives the header of the empty body.
C1_AuthHeaderExact ==
  (op = "generateAuthHeader" /\ pc = "done") =>
    /\ outcome = "returned"
    /\ out = ExpectedAuthHeader(args.apiKey, args.secretKey, args.randomKey,
                                args.uriPath, args.body)
    /\ (IsNullish(args.body) =>
          out = ExpectedAuthHeader(args.apiKey, args.secretKey, args.randomKey,
                                   args.uriPath, <<>>))

\* a header has been produced for a request without a body
C1_Witness ==
  /\ op = "generateAuthHeader"
  /\ pc = "done"
  /\ args.body = Undefined
  /\ out = ExpectedAuthHeader(args.apiKey, args.secretKey, args.randomKey,
                              args.uriPath, <<>>)

\* ------------------------------------------------------------------------
\* C2 .. C5
\* ------------------------------------------------------------------------

\* a signed field as text: nothing when the field is absent
Txt(v) == IF v = Undefined \/ v = Null THEN <<>> ELSE v

\* a signed amount as text: without its trailing zeros
Amt(v) == IF v = Undefined \/ v = Null THEN <<>> ELSE stripTrailingZeros(v)

Colon == <<":">>

\* the verifier has returned true
ReturnedTrue == outcome = "returned" /\ result = TRUE

PaymentCanonical(r) ==
  Txt(r.paymentId) \o Colon \o Txt(r.currency) \o Colon \o Txt(r.basketId) \o Colon \o
  Txt(r.conversationId) \o Colon \o Amt(r.paidPrice) \o Colon \o Amt(r.price)

\* C2: verifyPaymentSignature returns true iff the signature is
\* hmacHex(secretKey, paymentId:currency:basketId:conversationId:paidPrice*:price*)
\* with only the two amounts canonicalized, and verifyThreeDSAuthSignature
\* gives on every input what verifyPaymentSignature gives.
C2_PaymentVerifier ==
  /\ (op \in {"verifyPaymentSignature", "verifyThreeDSAuthSignature"} /\ pc = "done") =>
       (ReturnedTrue <=>
          args.response.signature =
            hmacSha256Hex(args.secretKey, PaymentCanonical(args.response)))
  /\ (op = "verifyThreeDSAuthSignature" /\ pc = "done") =>
       LET r == verify(args.secretKey, verifyPaymentSignatureMessage(args.response),
                       args.response.signature)
       IN  outcome = r.outcome /\ result = r.value

\* a payment response whose amount and basket id both end in ".0" was accepted
C2_Witness ==
  /\ op = "verifyThreeDSAuthSignature"
  /\ pc = "done"
  /\ ReturnedTrue
  /\ args.response.paidPrice = <<"1", ".", "0">>
  /\ args.response.basketId = <<"1", ".", "0">>
  /\ args.response.paymentId # args.response.currency

RefundCanonical(r) ==
  Txt(r.paymentId) \o Colon \o Amt(r.price) \o Colon \o Txt(r.currency) \o Colon \o
  Txt(r.conversationId)

\* C3: verifyRefundSignature returns true iff the signature is
\* hmacHex(secretKey, paymentId:price*:currency:conversationId), price being
\* the only field canonicalized as an amount.
C3_RefundVerifier ==
  (op = "verifyRefundSignature" /\ pc = "done") =>
    (ReturnedTrue <=>
       args.response.signature =
         hmacSha256Hex(args.secretKey, RefundCanonical(args.response)))

\* a refund whose price and currency both end in ".0" was accepted
C3_Witness ==
  /\ op = "verifyRefundSignature"
  /\ pc = "done"
  /\ ReturnedTrue
  /\ args.response.price = <<"1", ".", "0">>
  /\ args.response.currency = <<"1", ".", "0">>
  /\ args.response.paymentId = <<"a">>

FormRetrieveCanonical(r) ==
  Txt(r.paymentStatus) \o Colon \o Txt(r.paymentId) \o Colon \o Txt(r.currency) \o Colon \o
  Txt(r.basketId) \o Colon \o Txt(r.conversationId) \o Colon \o Amt(r.paidPrice) \o Colon \o
  Amt(r.price) \o Colon \o Txt(r.token)

\* C4: verifyFormRetrieveSignature returns true iff the signature is
\* hmacHex(secretKey, paymentStatus:paymentId:currency:basketId:conversationId:
\* paidPrice*:price*:token), only paidPrice and price being canonicalized.
C4_FormRetrieveVerifier ==
  (op = "verifyFormRetrieveSignature" /\ pc = "done") =>
    (ReturnedTrue <=>
       args.response.signature =
         hmacSha256Hex(args.secretKey, FormRetrieveCanonical(args.response)))

\* a retrieve response whose price, conversation id and token end in ".0"
\* was accepted
C4_Witness ==
  /\ op = "verifyFormRetrieveSignature"
  /\ pc = "done"
  /\ ReturnedTrue
  /\ args.response.price = <<"1", ".", "0">>
  /\ args.response.conversationId = <<"1", ".", "0">>
  /\ args.response.token = <<"1", ".", "0">>
  /\ args.response.paymentStatus # args.response.paymentId

ThreeDSInitCanonical(r) == Txt(r.paymentId) \o Colon \o Txt(r.conversationId)

CallbackCanonical(r) ==
  Txt(r.conversationData) \o Colon \o Txt(r.conversationId) \o Colon \o Txt(r.mdStatus) \o
  Colon \o Txt(r.paymentId) \o Colon \o Txt(r.status)

FormInitCanonical(r) == Txt(r.conversationId) \o Colon \o Txt(r.token)

\* C5: the verifiers without amounts return true iff the signature is the
\* HMAC of their fields joined by ':' in table order, nothing stripped:
\* 3DS initialize paymentId:conversationId; callback
\* conversationData:conversationId:mdStatus:paymentId:status; checkout-form
\* initialize conversationId:token.
C5_PlainVerifiers ==
  /\ (op = "verifyThreeDSInitSignature" /\ pc = "done") =>
       (ReturnedTrue <=>
          args.response.signature =
            hmacSha256Hex(args.secretKey, ThreeDSInitCanonical(args.response)))
  /\ (op = "verifyCallbackSignature" /\ pc = "done") =>
       (ReturnedTrue <=>
          args.response.signature =
            hmacSha256Hex(args.secretKey, CallbackCanonical(args.response)))
  /\ (op = "verifyFormInitSignature" /\ pc = "done") =>
       (ReturnedTrue <=>
          args.response.signature =
            hmacSha256Hex(args.secretKey, FormInitCanonical(args.response)))

\* a callback whose mdStatus ends in ".0" and differs from its paymentId
\* was accepted
C5_Witness ==
  /\ op = "verifyCallbackSignature"
  /\ pc = "done"
  /\ ReturnedTrue
  /\ args.response.mdStatus = <<"1", ".", "0">>
  /\ args.response.paymentId = <<"a">>
  /\ args.response.conversationData = Undefined

\* ------------------------------------------------------------------------
\* C6 .. C10
\* ------------------------------------------------------------------------

WebhookOps == {"verifyWebhookSignature", "generateWebhookTestSignature"}

\* the shape a payload has by its keys
ClaimedShape(p) ==
  IF "subscriptionReferenceCode" \in DOMAIN p.fields THEN "subscription"
  ELSE IF "token" \in DOMAIN p.fields THEN "hpp"
  ELSE "direct"

\* a webhook call is waiting for the digest of message
Hashing == op \in WebhookOps /\ pc = "await_hmac"

\* C6: the message that verifyWebhookSignature and
\* generateWebhookTestSignature hash, with secretKey as the HMAC key, is the
\* concatenation without separator of secretKey, iyziEventType, paymentId,
\* paymentConversationId, status (Direct); secretKey, iyziEventType,
\* iyziPaymentId, token, paymentConversationId, status (Hosted-Page);
\* merchantId, secretKey, iyziEventType, subscriptionReferenceCode,
\* orderReferenceCode, customerReferenceCode (Subscription).
C6_WebhookMessages ==
  Hashing =>
    /\ hmacKey = args.secretKey
    /\ (ClaimedShape(args.payload) = "direct" =>
          message = DirectText(args.secretKey, args.payload))
    /\ (ClaimedShape(args.payload) = "hpp" =>
          message = HppText(args.secretKey, args.payload))
    /\ (ClaimedShape(args.payload) = "subscription" =>
          message = SubscriptionText(args.merchantId, args.secretKey, args.payload))

\* a Hosted-Page delivery is being verified and a Direct test signature made
C6_Witness ==
  /\ Hashing
  /\ op = "verifyWebhookSignature"
  /\ args.payload \in HppPayloads
  /\ message = HppText(args.secretKey, args.payload)
  /\ gen.has
  /\ gen.payload \in DirectPayloads
  /\ gen.out = hmacSha256Hex(gen.secretKey, DirectText(gen.secretKey, gen.payload))

\* the call has been through the classification
Classified == op \in WebhookOps /\ pc # "idle" /\ shape # "none"

\* C7: the shape is decided by the keys alone, in a fixed order:
\* subscriptionReferenceCode gives Subscription (also next to a token key),
\* otherwise token gives Hosted-Page, otherwise Direct; every payload gets
\* exactly one shape, and verification and generation give payloads with
\* the same keys the same shape.
C7_ShapeByKeys ==
  /\ Classified => shape = ClaimedShape(args.payload)
  /\ (op = "generateWebhookTestSignature" /\ pc # "idle" /\ args.payload.object) => Classified
  /\ (op = "verifyWebhookSignature" /\ pc # "idle" /\ args.payload.object
        /\ ~IsFalsy(args.signature)) => Classified
  /\ (Classified /\ gen.has /\ DOMAIN gen.payload.fields = DOMAIN args.payload.fields) =>
       gen.shape = shape

\* a payload with both the subscription key and the token key was verified
\* as Subscription after a test signature was made for it
C7_Witness ==
  /\ op = "verifyWebhookSignature"
  /\ Classified
  /\ HasKey(args.payload, "subscriptionReferenceCode")
  /\ HasKey(args.payload, "token")
  /\ shape = "subscription"
  /\ gen.has
  /\ gen.payload = args.payload
  /\ gen.shape = "subscription"

\* a payload of one of the declared types: exactly its keys, every value a string
WellFormed(p, keys) ==
  /\ p.object
  /\ DOMAIN p.fields = keys
  /\ \A k \in keys : ~IsNullish(p.fields[k])

\* the signature that the last generateWebhookTestSignature call returned
\* has been checked under the same key
GeneratedChecked ==
  /\ op = "verifyWebhookSignature"
  /\ pc = "done"
  /\ gen.has
  /\ gen.out # <<>>
  /\ args.signature = gen.out
  /\ args.secretKey = gen.secretKey

\* d and h carry the same event type and status
SameEvent(d, h) ==
  /\ d.fields["iyziEventType"] = h.fields["iyziEventType"]
  /\ d.fields["status"] = h.fields["status"]

\* the generated signature went from a Direct payload to a Hosted-Page
\* payload, or the other way round
DirectToHpp ==
  /\ GeneratedChecked
  /\ WellFormed(gen.payload, DirectKeys)
  /\ WellFormed(args.payload, HppKeys)
  /\ SameEvent(gen.payload, args.payload)

HppToDirect ==
  /\ GeneratedChecked
  /\ WellFormed(gen.payload, HppKeys)
  /\ WellFormed(args.payload, DirectKeys)
  /\ SameEvent(gen.payload, args.payload)

ReturnedFalse == outcome = "returned" /\ result = FALSE

\* C8 as stated: a signature generated for a Direct payload is rejected for
\* every Hosted-Page payload with the same event type and status, and the
\* other way round, whatever the other field values are.
C8_ShapeIsolationAlways ==
  (DirectToHpp \/ HppToDirect) => ReturnedFalse

\* the identifiers of a Direct payload and of a Hosted-Page payload as they
\* follow each other in the hashed text
DirectIds(d) == d.fields["paymentId"] \o d.fields["paymentConversationId"]

HppIds(h) ==
  h.fields["iyziPaymentId"] \o h.fields["token"] \o h.fields["paymentConversationId"]

\* C8 amended: with the same event type and status, the signature generated
\* for the one payload is rejected for the other exactly when
\* paymentId + paymentConversationId of the Direct payload differs from
\* iyziPaymentId + token + paymentConversationId of the Hosted-Page payload.
C8_ShapeIsolation ==
  /\ DirectToHpp =>
       /\ outcome = "returned"
       /\ (result = FALSE <=> DirectIds(gen.payload) # HppIds(args.payload))
  /\ HppToDirect =>
       /\ outcome = "returned"
       /\ (result = FALSE <=> HppIds(gen.payload) # DirectIds(args.payload))

\* a Direct signature was rejected for a Hosted-Page payload with the same
\* payment id and conversation id
C8_Witness ==
  /\ DirectToHpp
  /\ ReturnedFalse
  /\ gen.payload.fields["paymentId"] = args.payload.fields["iyziPaymentId"]
  /\ gen.payload.fields["paymentConversationId"] =
       args.payload.fields["paymentConversationId"]

\* a Subscription payload was verified against the HMAC of the Subscription
\* message built with merchant id m
SubscriptionSigned(m) ==
  /\ op = "verifyWebhookSignature"
  /\ pc = "done"
  /\ args.payload.object
  /\ HasKey(args.payload, "subscriptionReferenceCode")
  /\ args.signature =
       hmacSha256Hex(args.secretKey, SubscriptionText(m, args.secretKey, args.payload))

\* C9 as stated: for every merchantId m the HMAC of the Subscription message
\* built with m is rejected without a merchantId, accepted with m, and
\* rejected with any other merchantId.
C9_MerchantIdAny ==
  \A m \in MerchantStrings :
    (SubscriptionSigned(m) /\ WellFormed(args.payload, SubscriptionKeys)) =>
      /\ (args.merchantId = Undefined => ReturnedFalse)
      /\ (args.merchantId = m => ReturnedTrue)
      /\ (args.merchantId # Undefined /\ args.merchantId # m => ReturnedFalse)

\* C9 amended: for every non-empty merchantId m the HMAC of the Subscription
\* message built with m is rejected without a merchantId or with an empty
\* one, accepted with m, and rejected with any other merchantId.
C9_MerchantId ==
  \A m \in MerchantStrings \ {<<>>} :
    SubscriptionSigned(m) =>
      /\ (args.merchantId \in {Undefined, Null, <<>>} => ReturnedFalse)
      /\ (args.merchantId = m => ReturnedTrue)
      /\ (args.merchantId # m => ReturnedFalse)

\* a Subscription delivery signed with merchant id "m" was accepted with "m"
C9_Witness ==
  /\ SubscriptionSigned(<<"m">>)
  /\ args.payload \in SubscriptionPayloads
  /\ args.merchantId = <<"m">>
  /\ ReturnedTrue

\* C10: with an empty signature verifyWebhookSignature returns false for
\* every payload and merchantId before it classifies the payload; there,
\* and when a Subscription payload comes without merchantId, no HMAC is
\* computed.
C10_EarlyExits ==
  /\ (op = "verifyWebhookSignature" /\ args.signature = <<>>) =>
       /\ pc = "done"
       /\ ReturnedFalse
       /\ trace = <<>>
       /\ shape = "none"
  /\ (op = "verifyWebhookSignature" /\ args.signature # <<>>
        /\ args.signature # Undefined /\ args.payload.object
        /\ HasKey(args.payload, "subscriptionReferenceCode")
        /\ args.merchantId = Undefined) =>
       /\ pc = "done"
       /\ ReturnedFalse
       /\ \A i \in 1..Len(trace) : trace[i] # "hmacSha256Hex"

\* an empty signature was rejected for a payload that is not an object, and
\* so cannot be classified
C10_Witness ==
  /\ op = "verifyWebhookSignature"
  /\ pc = "done"
  /\ args.signature = <<>>
  /\ args.payload = NotAnObject
  /\ ReturnedFalse

\* ------------------------------------------------------------------------
\* C11
\* ------------------------------------------------------------------------

\* the text a payload is signed with, by the shape its keys give it
WebhookText(secretKey, p, merchantId) ==
  IF ClaimedShape(p) = "subscription" THEN SubscriptionText(merchantId, secretKey, p)
  ELSE IF ClaimedShape(p) = "hpp" THEN HppText(secretKey, p)
  ELSE DirectText(secretKey, p)

\* generateWebhookTestSignature has settled for a payload that is an object
GenerateSettled ==
  /\ op = "generateWebhookTestSignature"
  /\ pc = "done"
  /\ args.payload.object

\* the generated signature has been verified with the key, payload and
\* merchantId it was generated with
RoundTrip ==
  /\ GeneratedChecked
  /\ args.payload = gen.payload
  /\ args.merchantId = gen.merchantId

\* C11 as stated: generateWebhookTestSignature returns the empty string
\* exactly when the payload is Subscription-shape and no merchantId is given
\* (a merchantId that is given, the empty string included, gives a digest);
\* in every other case it returns hmacHex(secretKey, canonical message), and
\* verifyWebhookSignature accepts that signature for the same arguments.
C11_EmptyOnlyWithoutMerchantId ==
  /\ GenerateSettled =>
       /\ outcome = "returned"
       /\ IF ClaimedShape(args.payload) = "subscription" /\ args.merchantId = Undefined
          THEN out = <<>>
          ELSE out = hmacSha256Hex(args.secretKey,
                                   WebhookText(args.secretKey, args.payload, args.merchantId))
  /\ RoundTrip => ReturnedTrue

\* C11: generateWebhookTestSignature returns the empty string exactly when
\* the payload is Subscription-shape and merchantId is absent or the empty
\* string; in every other case it returns hmacHex(secretKey, canonical
\* message), which is never empty, and verifyWebhookSignature called with
\* the same secretKey, payload and merchantId and that signature returns
\* true, for all three shapes.
C11_GenerateRoundTrip ==
  /\ GenerateSettled =>
       /\ outcome = "returned"
       /\ IF ClaimedShape(args.payload) = "subscription"
               /\ args.merchantId \in {Undefined, Null, <<>>}
          THEN out = <<>>
          ELSE /\ out = hmacSha256Hex(args.secretKey,
                          WebhookText(args.secretKey, args.payload, args.merchantId))
               /\ out # <<>>
  /\ RoundTrip => ReturnedTrue

\* a signature generated for a Subscription payload with a merchantId was
\* verified with the same arguments and accepted
C11_Witness ==
  /\ RoundTrip
  /\ ReturnedTrue
  /\ WellFormed(args.payload, SubscriptionKeys)
  /\ args.merchantId = <<"m">>
  /\ shape = "subscription"

\* ------------------------------------------------------------------------
\* C12
\* ------------------------------------------------------------------------

\* an object with none of the Direct, Hosted-Page or Subscription fields
MatchesNoShape(p) ==
  /\ p.object
  /\ DOMAIN p.fields \cap (DirectKeys \cup HppKeys \cup SubscriptionKeys) = {}

\* C12: a webhook payload that matches none of the three known shapes is
\* never accepted: verifyWebhookSignature returns false for it for every
\* signature value and every merchantId.
C12_UnknownShapeRejected ==
  (op = "verifyWebhookSignature" /\ pc = "done" /\ MatchesNoShape(args.payload)) =>
    ReturnedFalse

\* ------------------------------------------------------------------------
\* C13
\* ------------------------------------------------------------------------

AmountVerifiers ==
  {"verifyPaymentSignature", "verifyFormRetrieveSignature", "verifyRefundSignature"}

HasDot(a) == \E i \in 1..Len(a) : a[i] = "."

\* b is a with zeros appended to its fractional part; an amount without a
\* decimal point has an empty fractional part
ZeroPadded(a, b) ==
  \E k \in 0..(MaxZeros + 1) :
    b = (IF HasDot(a) THEN a ELSE a \o <<".">>) \o Zeros(k)

\* a and b differ at most in the trailing zeros of the fractional part
SameAmount(a, b) == a = b \/ ZeroPadded(a, b) \/ ZeroPadded(b, a)

\* the amounts that are strings
AmountStrings == Amounts \ {Undefined, Null}

\* for every amount string, its other renderings: those that differ from
\* it only in trailing zeros of the fractional part
SameAmountAs == [v \in AmountStrings |-> {b \in AmountStrings \ {v} : SameAmount(v, b)}]

\* the other renderings of an amount field; an absent amount has none
Renderings(v) == IF v = Undefined \/ v = Null THEN {} ELSE SameAmountAs[v]

\* the responses that differ from r only in such a rendering of one
\* amount field
RenderedAs(name, r) ==
  {[r EXCEPT !.price = b] : b \in Renderings(r.price)} \cup
    (IF name = "verifyRefundSignature" THEN {}
     ELSE {[r EXCEPT !.paidPrice = a] : a \in Renderings(r.paidPrice)})

\* the message the verifier called name builds for response r
MessageOf(name, r) ==
  CASE name = "verifyPaymentSignature" -> verifyPaymentSignatureMessage(r)
    [] name = "verifyFormRetrieveSignature" -> verifyFormRetrieveSignatureMessage(r)
    [] OTHER -> verifyRefundSignatureMessage(r)

\* what verify gives for message msg and the signature that was received
Verdict(secretKey, msg, signature) ==
  LET v == verify(secretKey, msg, signature)
  IN  <<v.outcome, v.value>>

\* C13: for the payment, form-retrieve and refund verifiers, two responses
\* that differ only in trailing zeros of the fractional part of an amount
\* field (10.50 and 10.5, 10.0 and 10) get the same verification result
\* under the same signature and key.
C13_TrailingZerosEquivalent ==
  (op \in AmountVerifiers /\ pc = "done") =>
    \A msg \in {MessageOf(op, r2) : r2 \in RenderedAs(op, args.response)} :
      Verdict(args.secretKey, msg, args.response.signature) = <<outcome, result>>

\* a payment response with price "1.0" and paidPrice "1.50" was accepted,
\* and so are the same response with price "1" and the same response with
\* paidPrice "1.5"
C13_Witness ==
  /\ op = "verifyPaymentSignature"
  /\ pc = "done"
  /\ ReturnedTrue
  /\ args.response.price = <<"1", ".", "0">>
  /\ args.response.paidPrice = <<"1", ".", "5", "0">>
  /\ [args.response EXCEPT !.price = <<"1">>] \in RenderedAs(op, args.response)
  /\ [args.response EXCEPT !.paidPrice = <<"1", ".", "5">>] \in RenderedAs(op, args.response)

\* ------------------------------------------------------------------------
\* C14
\* ------------------------------------------------------------------------

\* the signed fields of a response, in the order they are signed
SignedFieldsOf(name, r) ==
  CASE name = "verifyPaymentSignature" -> PaymentSignedFields(r)
    [] name = "verifyThreeDSAuthSignature" -> PaymentSignedFields(r)
    [] name = "verifyThreeDSInitSignature" -> ThreeDSInitSignedFields(r)
    [] name = "verifyCallbackSignature" -> CallbackSignedFields(r)
    [] name = "verifyFormInitSignature" -> FormInitSignedFields(r)
    [] name = "verifyFormRetrieveSignature" -> FormRetrieveSignedFields(r)
    [] OTHER -> RefundSignedFields(r)

RECURSIVE Pieces(_, _)
\* the pieces of s between its ':' characters, cur being the piece so far
Pieces(s, cur) ==
  IF s = <<>> THEN <<cur>>
  ELSE IF Head(s) = ":" THEN <<cur>> \o Pieces(Tail(s), <<>>)
  ELSE Pieces(Tail(s), Append(cur, Head(s)))

Absent(v) == v = Undefined \/ v = Null

\* C14: in every response verifier, a signed field that is undefined or
\* null contributes the empty string to the message and its ':' separators
\* stay, so the message has one position per signed field whatever is
\* absent; an absent field never contributes the text "null" or
\* "undefined", at an amount position either.
C14_AbsentFieldsEmpty ==
  (op \in ResponseVerifiers /\ pc # "idle") =>
    LET fields == SignedFieldsOf(op, args.response)
        parts == Pieces(message, <<>>)
    IN  /\ Len(parts) = Len(fields)
        /\ \A j \in 1..Len(fields) :
             /\ Absent(fields[j]) => parts[j] = <<>>
             /\ parts[j] # <<"n", "u", "l", "l">>
             /\ parts[j] # <<"u", "n", "d", "e", "f", "i", "n", "e", "d">>

\* a payment response whose basketId, conversationId and both amounts are
\* absent was verified over "a:a::::" and accepted
C14_Witness ==
  /\ op = "verifyPaymentSignature"
  /\ pc = "done"
  /\ ReturnedTrue
  /\ args.response.basketId = Undefined
  /\ args.response.conversationId = Null
  /\ args.response.paidPrice = Null
  /\ args.response.price = Undefined
  /\ message = <<"a", ":", "a", ":", ":", ":", ":">>

\* ------------------------------------------------------------------------
\* C15
\* ------------------------------------------------------------------------

\* the canonical message of a response, by its verifier
CanonicalOf(name, r) ==
  CASE name = "verifyPaymentSignature" -> PaymentCanonical(r)
    [] name = "verifyThreeDSAuthSignature" -> PaymentCanonical(r)
    [] name = "verifyThreeDSInitSignature" -> ThreeDSInitCanonical(r)
    [] name = "verifyCallbackSignature" -> CallbackCanonical(r)
    [] name = "verifyFormInitSignature" -> FormInitCanonical(r)
    [] name = "verifyFormRetrieveSignature" -> FormRetrieveCanonical(r)
    [] OTHER -> RefundCanonical(r)

\* a and b have the same length and differ at exactly one position
DiffersInOneCharacter(a, b) ==
  /\ Len(a) = Len(b)
  /\ Cardinality({i \in 1..Len(a) : a[i] # b[i]}) = 1

\* a verifier has settled on a signature that is a string, for an input
\* that has a canonical message
Compared ==
  /\ pc = "done"
  /\ \/ op \in ResponseVerifiers /\ ~Absent(args.response.signature)
     \/ /\ op = "verifyWebhookSignature"
        /\ ~Absent(args.signature)
        /\ args.payload.object
        /\ ~(ClaimedShape(args.payload) = "subscription"
               /\ args.merchantId \in {Undefined, Null, <<>>})

\* the signature that was supplied, and the digest it should be
Supplied == IF op = "verifyWebhookSignature" THEN args.signature ELSE args.response.signature

ExpectedDigest ==
  hmacSha256Hex(args.secretKey,
                IF op = "verifyWebhookSignature"
                THEN WebhookText(args.secretKey, args.payload, args.merchantId)
                ELSE CanonicalOf(op, args.response))

\* C15: every response verifier and verifyWebhookSignature returns true
\* when the supplied signature equals the expected HMAC hex digest of the
\* canonical message, and false when it differs from it in any single
\* character or in length.
C15_ExactDigestOnly ==
  Compared =>
    /\ Supplied = ExpectedDigest => ReturnedTrue
    /\ DiffersInOneCharacter(Supplied, ExpectedDigest) => ReturnedFalse
    /\ Len(Supplied) # Len(ExpectedDigest) => ReturnedFalse

\* a Direct webhook delivery whose signature differs from the digest in the
\* first character only was rejected
C15_Witness ==
  /\ op = "verifyWebhookSignature"
  /\ Compared
  /\ WellFormed(args.payload, DirectKeys)
  /\ DiffersInOneCharacter(Supplied, ExpectedDigest)
  /\ Supplied[1] # ExpectedDigest[1]
  /\ ReturnedFalse

\* ------------------------------------------------------------------------
\* C16
\* ------------------------------------------------------------------------

\* timingSafeEqual has returned for the strings args.a and args.b
TimingSafeEqualReturned == op = "timingSafeEqual" /\ pc = "done"

\* C16: timingSafeEqual(a, b) is true exactly when a and b are the same
\* string: true for (s, s), the empty string included, false when the
\* lengths differ, false when any position differs, the last one included.
C16_EqualExactlyWhenSame ==
  TimingSafeEqualReturned =>
    /\ outcome = "returned"
    /\ result = (args.a = args.b)
    /\ Len(args.a) # Len(args.b) => result = FALSE
    /\ (\E i \in 1..Len(args.a) : i <= Len(args.b) /\ args.a[i] # args.b[i]) => result = FALSE
    /\ (args.a = <<>> /\ args.b = <<>>) => result = TRUE

\* two strings of the same length that differ in the last character only
\* were compared and found different
C16_Witness ==
  /\ TimingSafeEqualReturned
  /\ Len(args.a) = MaxStrLen
  /\ DiffersInOneCharacter(args.a, args.b)
  /\ args.a[Len(args.a)] # args.b[Len(args.b)]
  /\ result = FALSE

\* ------------------------------------------------------------------------
\* C17
\* ------------------------------------------------------------------------

Digits == {"0", "1", "2", "3", "4", "5", "6", "7", "8", "9"}

\* the position of the first '.' of s, or Len(s) + 1 when it has none
DotAt(s) == IF HasDot(s) THEN CHOOSE i \in 1..Len(s) : s[i] = "." /\ \A j \in 1..(i - 1) : s[j] # "."
            ELSE Len(s) + 1

\* the digits before the '.', and the fractional part after it
IntegerPart(s) == SubSeq(s, 1, DotAt(s) - 1)

FractionalPart(s) == SubSeq(s, DotAt(s) + 1, Len(s))

AllDigits(s) == \A i \in 1..Len(s) : s[i] \in Digits

\* a decimal string: one or more digits, then optionally a '.' and a
\* fractional part of digits, which may be empty
IsDecimal(s) ==
  /\ IntegerPart(s) # <<>>
  /\ AllDigits(IntegerPart(s))
  /\ AllDigits(FractionalPart(s))

\* stripTrailingZeros has returned for a decimal string
StrippedDecimal ==
  /\ op = "stripTrailingZeros"
  /\ pc = "done"
  /\ IsDecimal(args.value)

\* C17: for a decimal string x, stripTrailingZeros(x) is x when x has no
\* '.'; otherwise it is x without the trailing '0's of its fractional part,
\* and without the '.' when no fractional digit remains. The result never
\* ends in '.', never ends in '0' after a '.', and keeps every digit before
\* the '.'.
C17_StripTrailingZeros ==
  StrippedDecimal =>
    /\ ~HasDot(args.value) => out = args.value
    /\ HasDot(args.value) =>
         \E k \in 0..Len(args.value) :
           \/ HasDot(out) /\ args.value = out \o Zeros(k)
           \/ ~HasDot(out) /\ args.value = out \o <<".">> \o Zeros(k)
    /\ out # <<>> /\ out[Len(out)] # "."
    /\ HasDot(out) => out[Len(out)] # "0"
    /\ IntegerPart(out) = IntegerPart(args.value)

\* "10.0" was stripped to "10": the zero before the '.' stayed
C17_Witness ==
  /\ StrippedDecimal
  /\ args.value = <<"1", "0", ".", "0">>
  /\ out = <<"1", "0">>

\* ------------------------------------------------------------------------
\* C18
\* ------------------------------------------------------------------------

\* formatPrice has returned for a decimal string
FormattedDecimal ==
  /\ op = "formatPrice"
  /\ pc = "done"
  /\ IsDecimal(args.price)

\* C18: for every decimal string p, formatPrice(p) has a '.' followed by at
\* least one digit: it is p + ".0" when p has no '.', and otherwise p with
\* the trailing zeros of the fractional part stripped but never fewer than
\* one digit left after the '.'.
C18_FormatPriceKeepsOneDigit ==
  FormattedDecimal =>
    /\ HasDot(out)
    /\ FractionalPart(out) # <<>>
    /\ AllDigits(FractionalPart(out))
    /\ ~HasDot(args.price) => out = args.price \o <<".", "0">>
    /\ HasDot(args.price) =>
         /\ IntegerPart(out) = IntegerPart(args.price)
         /\ \E k \in 0..Len(args.price) : args.price = out \o Zeros(k)
         /\ Len(FractionalPart(out)) > 1 => out[Len(out)] # "0"

\* ------------------------------------------------------------------------
\* C19
\* ------------------------------------------------------------------------

\* one of the two canonicalizers has returned
Canonicalized == op \in {"stripTrailingZeros", "formatPrice"} /\ pc = "done"

\* the function applied again, to its own result
Again == IF op = "formatPrice" THEN formatPrice(out) ELSE stripTrailingZeros(out)

\* the string the function was called on
Input == IF op = "formatPrice" THEN args.price ELSE args.value

\* the number of '.' characters of s
DotCount(s) == Cardinality({i \in 1..Len(s) : s[i] = "."})

\* C19 as stated: for every input string x,
\* stripTrailingZeros(stripTrailingZeros(x)) = stripTrailingZeros(x) and
\* formatPrice(formatPrice(x)) = formatPrice(x).
C19_IdempotentOnEveryString ==
  Canonicalized => Again = out

\* C19: formatPrice(formatPrice(x)) = formatPrice(x) for every input string
\* x, and stripTrailingZeros(stripTrailingZeros(x)) = stripTrailingZeros(x)
\* for every string x with at most one '.', the decimal strings among them.
C19_Idempotent ==
  (Canonicalized /\ (op = "formatPrice" \/ DotCount(Input) <= 1)) => Again = out

\* "1.00" was formatted to "1.0", which formats to itself, and "1.00" was
\* stripped to "1", which strips to itself
C19_Witness ==
  /\ Canonicalized
  /\ Input = <<"1", ".", "0", "0">>
  /\ out = (IF op = "formatPrice" THEN <<"1", ".", "0">> ELSE <<"1">>)
  /\ Again = out

\* ------------------------------------------------------------------------
\* C20
\* ------------------------------------------------------------------------

\* a request has been handed to fetch
Sent == op = "request" /\ fetched.called

\* the x-iyzi-rnd header and the body of the request that was sent
RndHeader == fetched.init.headers["x-iyzi-rnd"]

SentBody == fetched.init.body

\* the random keys a request can carry
Nonces == {first \o second : first \in Uint32Values, second \in Uint32Values}

\* the random key in the decoded Authorization header h of a request of
\* the client: h is "IYZWSv2 " and the base64 text of
\* apiKey:<apiKey>&randomKey:<r>&signature:<the digest of what was hashed>
DecodesTo(h, r) ==
  h = <<"I", "Y", "Z", "W", "S", "v", "2", " ">> \o
      btoa(<<"a", "p", "i", "K", "e", "y", ":">> \o args.client.apiKey \o
           <<"&", "r", "a", "n", "d", "o", "m", "K", "e", "y", ":">> \o r \o
           <<"&", "s", "i", "g", "n", "a", "t", "u", "r", "e", ":">> \o
           hmacSha256Hex(args.client.secretKey, message))

\* C20: every request HttpClient sends is consistent with what was signed:
\* the x-iyzi-rnd header equals the randomKey inside the base64-decoded
\* Authorization header and the randomKey hashed into the signature, and
\* the body passed to fetch is the serialized string hashed into the
\* signature, no body being sent when none was signed.
C20_SentAsSigned ==
  Sent =>
    /\ \E r \in Nonces : DecodesTo(fetched.init.headers["Authorization"], r)
    /\ \A r \in Nonces : DecodesTo(fetched.init.headers["Authorization"], r) => r = RndHeader
    /\ message = RndHeader \o args.uriPath \o BodyText(SentBody)
    /\ SentBody = Undefined <=> message = RndHeader \o args.uriPath
    /\ SentBody # Undefined => SentBody = JSONStringify(args.body)

\* a POST of the empty string was answered: its body went out as the two
\* quotes that were signed, under the random key "100"
C20_Witness ==
  /\ Sent
  /\ pc = "done"
  /\ outcome = "returned"
  /\ args.method = "POST"
  /\ args.body = Value("string", <<>>)
  /\ SentBody = <<"\"", "\"">>
  /\ RndHeader = <<"1", "0", "0">>


\* ------------------------------------------------------------------------
\* C22: the path that a request signs
\* ------------------------------------------------------------------------

V2 == <<"/", "v", "2">>

\* sub stands in str at the 1-based position i
OccursAt(str, sub, i) ==
  /\ i >= 1
  /\ i + Len(sub) - 1 <= Len(str)
  /\ SubSeq(str, i, i + Len(sub) - 1) = sub

Occurrences(str, sub) == {i \in 1..Len(str) : OccursAt(str, sub, i)}

First(positions) == CHOOSE i \in positions : \A j \in positions : i <= j

IsPrefixOf(a, b) == Len(a) <= Len(b) /\ SubSeq(b, 1, Len(a)) = a

\* the base url without the slashes at its end
TrimmedBase(b) ==
  LET n == CHOOSE k \in 0..Len(b) :
             /\ k = 0 \/ b[k] # "/"
             /\ \A i \in (k + 1)..Len(b) : b[i] = "/"
  IN  SubSeq(b, 1, n)

\* the full URL of the request in hand
RequestUrl == TrimmedBase(args.options.baseUrl) \o args.path

FromFirstV2(url) == SubSeq(url, First(Occurrences(url, V2)), Len(url))

\* the part of the url in front of its first "?"
BeforeQuery(url) ==
  LET marks == Occurrences(url, <<"?">>)
  IN  IF marks = {} THEN url ELSE SubSeq(url, 1, First(marks) - 1)

\* the path component of scheme://host/path?query
PathComponent(url) ==
  LET host == First(Occurrences(url, <<":", "/", "/">>)) + 3
      front == BeforeQuery(url)
      slashes == {i \in Occurrences(front, <<"/">>) : i >= host}
  IN  IF slashes = {} THEN <<"/">> ELSE SubSeq(front, First(slashes), Len(front))

\* a request that got as far as signing
SignedRequest == op = "request" /\ message # <<>>

\* C22: the signed path is taken from the full URL, the base url without
\* its trailing slashes followed by the path: when the URL contains /v2 the
\* signed path is the substring that starts at the first /v2 (all of the
\* rest of the URL when there is no query string), so whatever stands in
\* front of it is dropped; otherwise it is the path component of the URL.
C22_SignedPathFromUrl ==
  SignedRequest =>
    LET url == RequestUrl
        signedPath == args.uriPath
    IN  /\ message = args.randomKey \o signedPath \o BodyText(args.jsonBody)
        /\ IF Occurrences(url, V2) # {}
           THEN /\ signedPath # <<>>
                /\ IsPrefixOf(signedPath, FromFirstV2(url))
                /\ Occurrences(FromFirstV2(url), <<"?">>) = {} => signedPath = FromFirstV2(url)
           ELSE signedPath = PathComponent(url)

\* a base url with a path of its own and a path with /v2 twice: the signed
\* path starts at the first /v2, and the prefix is dropped
C22_Witness ==
  /\ SignedRequest
  /\ fetched.called
  /\ args.options.baseUrl = <<"h", ":", "/", "/", "x", "/", "a">>
  /\ args.path = <<"/", "a", "/", "v", "2", "/", "v", "2">>
  /\ args.uriPath = <<"/", "v", "2", "/", "v", "2">>


\* ------------------------------------------------------------------------
\* C26: the query string is not signed
\* ------------------------------------------------------------------------

IsSuffixOf(a, b) == Len(a) <= Len(b) /\ SubSeq(b, Len(b) - Len(a) + 1, Len(b)) = a

\* C26: for every request URL the signed path ends where the URL's first
\* "?" stands, so that nothing at or after that "?" is in the signed
\* message: the signed path is the end of the part of the URL in front of
\* the query string, with /v2 in the URL and without.
C26_NoQueryStringSigned ==
  SignedRequest =>
    /\ IsSuffixOf(args.uriPath, BeforeQuery(RequestUrl))
    /\ message = args.randomKey \o args.uriPath \o BodyText(args.jsonBody)


\* ------------------------------------------------------------------------
\* C23: the outcomes of a client call
\* ------------------------------------------------------------------------

\* a call whose request was built and handed to fetch has ended
Ended == op = "request" /\ pc = "done" /\ fetched.called

\* the timeout the client was configured with, 30000 ms when none was given
ConfiguredTimeout ==
  IF args.options.timeout = Undefined \/ args.options.timeout = Null
  THEN <<"3", "0", "0", "0", "0">>
  ELSE args.options.timeout

TimeoutDOMException == [class |-> "DOMException", name |-> "TimeoutError"]

\* what went wrong, if anything: fetch rejected, or reading the body did
FetchRejected == ~args.response.received /\ args.rejection.class # "none"

BodyReadFailed == args.response.received /\ args.rejection.class # "none"

FailureText ==
  <<"{", "\"", "s", "t", "a", "t", "u", "s", "\"", ":", "\"", "f", "a", "i", "l", "u", "r",
    "e", "\"", "}">>

\* the bodies of the model that are JSON texts, and their values
JsonValueOf(text) ==
  CASE text = <<"7">> -> [kind |-> "number", text |-> <<"7">>, members |-> <<>>]
    [] text = FailureText ->
         [kind |-> "object", text |-> <<>>,
          members |-> <<[key |-> <<"s", "t", "a", "t", "u", "s">>,
                         value |-> [kind |-> "string",
                                    text |-> <<"f", "a", "i", "l", "u", "r", "e">>,
                                    members |-> <<>>]]>>]
    [] OTHER -> [kind |-> "none", text |-> <<>>, members |-> <<>>]

IsJsonText(text) == JsonValueOf(text).kind # "none"

C27_TimeoutAtAnyStage ==
  (Ended /\ args.rejection = TimeoutDOMException) =>
    /\ outcome = "thrown"
    /\ out.name = "IyzipayTimeoutError"


\* ------------------------------------------------------------------------
\* C30: the secret key stays out of what is sent
\* ------------------------------------------------------------------------

Contains(text, part) == Occurrences(text, part) # {}

\* the text that the Authorization header of a request encodes
AuthorizationText(apiKey, randomKey, digest) ==
  <<"a", "p", "i", "K", "e", "y", ":">> \o apiKey \o
  <<"&", "r", "a", "n", "d", "o", "m", "K", "e", "y", ":">> \o randomKey \o
  <<"&", "s", "i", "g", "n", "a", "t", "u", "r", "e", ":">> \o digest

Encoded(text) == <<"I", "Y", "Z", "W", "S", "v", "2", " ">> \o btoa(text)

\* the decoded Authorization header of the request that was sent
SentAuthorizationText ==
  AuthorizationText(args.options.apiKey, RndHeader,
                    hmacSha256Hex(args.options.secretKey, message))

\* the texts the caller chose: api key, base url, path, and body
CallerTexts ==
  {args.options.apiKey, args.options.baseUrl, args.path, args.body.text}

\* the secret key is in nothing that is sent
NoKeySent ==
  /\ ~Contains(SentAuthorizationText, args.options.secretKey)
  /\ ~Contains(RndHeader, args.options.secretKey)
  /\ ~Contains(fetched.url, args.options.secretKey)
  /\ SentBody # Undefined => ~Contains(SentBody, args.options.secretKey)

\* the request that a client with the secret key otherKey sends for the
\* same api key, base url, timeout, method, path, body and nonce
RequestWith(otherKey) ==
  LET client == HttpClient([args.options EXCEPT !.secretKey = otherKey])
      uriPath == extractUriPath(client.baseUrl \o args.path).value
      authorization == generateAuthHeader(client.apiKey, client.secretKey, args.randomKey,
                                          uriPath, JsonBody(args.body))
  IN  [url |-> client.baseUrl \o args.path,
       init |-> RequestInit(args.method, authorization, args.randomKey, JsonBody(args.body),
                            client.timeout)]

\* two requests that differ in the digest inside the Authorization header
\* and in nothing else
DifferOnlyInDigest(otherKey) ==
  LET other == RequestWith(otherKey)
      otherDigest == hmacSha256Hex(otherKey, message)
  IN  /\ other.url = fetched.url
      /\ other.init.method = fetched.init.method
      /\ other.init.body = fetched.init.body
      /\ other.init.signal = fetched.init.signal
      /\ DOMAIN other.init.headers = DOMAIN fetched.init.headers
      /\ \A n \in DOMAIN other.init.headers \ {"Authorization"} :
           other.init.headers[n] = fetched.init.headers[n]
      /\ other.init.headers["Authorization"] =
           Encoded(AuthorizationText(args.options.apiKey, RndHeader, otherDigest))
      /\ otherDigest # hmacSha256Hex(args.options.secretKey, message)

SentUnderOneKey ==
  /\ fetched.init.headers["Authorization"] = Encoded(SentAuthorizationText)
  /\ \A otherKey \in SecretKeys \ {args.options.secretKey} : DifferOnlyInDigest(otherKey)

Differences == {i \in 1..Len(args.a) : i <= Len(args.b) /\ args.a[i] # args.b[i]}

\* C29: when a and b have the same length, timingSafeEqual passes through
\* its loop once for every character position, whether the strings differ
\* or not and wherever they differ; only strings of different lengths
\* return early, before the loop.
C29_EveryPositionExamined ==
  TimingSafeEqualReturned =>
    /\ Len(args.a) = Len(args.b) => Len(trace) = Len(args.a)
    /\ Len(args.a) # Len(args.b) => (Len(trace) = 0 /\ result = FALSE)

\* two strings of the greatest length that differ in the first position
\* and in no other were compared in as many passes as they have
\* characters
C29_Witness ==
  /\ TimingSafeEqualReturned
  /\ Len(args.a) = MaxStrLen
  /\ Len(args.b) = MaxStrLen
  /\ Differences = {1}
  /\ Len(trace) = MaxStrLen
  /\ result = FALSE


\* ------------------------------------------------------------------------
\* C28: verification answers false, it does not throw
\* ------------------------------------------------------------------------

\* a response verifier has settled for a response without a signature
NoSignatureVerified ==
  /\ op \in ResponseVerifiers
  /\ pc = "done"
  /\ (args.response.signature = Undefined \/ args.response.signature = Null)

\* verifyWebhookSignature has settled for a signature that is not empty
\* and a payload that is no object
NoObjectVerified ==
  /\ op = "verifyWebhookSignature"
  /\ pc = "done"
  /\ args.signature # <<>>
  /\ args.signature # Undefined
  /\ ~args.payload.object

\* C28: verification reports an input that is not authentic or not well
\* formed by returning false, never by throwing: every response verifier
\* returns false for a response without a signature field, and
\* verifyWebhookSignature returns false for a signature that is not empty
\* and a payload that is not an object.
C28_FalseNotThrown ==
  (NoSignatureVerified \/ NoObjectVerified) => (outcome = "returned" /\ result = FALSE)


\* ------------------------------------------------------------------------
\* C25: a signature and changed data
\* ------------------------------------------------------------------------

\* the message each response verifier builds for response r
BuiltMessage(name, r) ==
  CASE name = "verifyPaymentSignature" -> verifyPaymentSignatureMessage(r)
    [] name = "verifyThreeDSAuthSignature" -> verifyThreeDSAuthSignatureMessage(r)
    [] name = "verifyThreeDSInitSignature" -> verifyThreeDSInitSignatureMessage(r)
    [] name = "verifyCallbackSignature" -> verifyCallbackSignatureMessage(r)
    [] name = "verifyFormInitSignature" -> verifyFormInitSignatureMessage(r)
    [] name = "verifyFormRetrieveSignature" -> verifyFormRetrieveSignatureMessage(r)
    [] OTHER -> verifyRefundSignatureMessage(r)

\* a response verifier has accepted the signature of args.response
Accepted == op \in ResponseVerifiers /\ pc = "done" /\ ReturnedTrue

\* the signed fields of the response in hand, by name
SignedNames == DOMAIN args.response \ {"signature"}

AmountNames == {"price", "paidPrice"}

\* the values a signed field can take
FieldValues(f) ==
  IF f \in AmountNames THEN Amounts
  ELSE IF f \in {"basketId", "conversationId", "conversationData"} THEN OptVals
  ELSE IdVals

\* the value v in place of the signed field f, the signature kept
Changed(f, v) == [args.response EXCEPT ![f] = v]

\* what the verifier in hand answers for response r2 under the same key
\* and the signature it accepted
VerdictFor(r2) == Verdict(args.secretKey, BuiltMessage(op, r2), args.response.signature)

\* two values of an amount field that differ only by trailing zeros
OnlyTrailingZeros(f, a, b) ==
  /\ f \in AmountNames
  /\ ~Absent(a)
  /\ ~Absent(b)
  /\ SameAmount(a, b)

\* C25 as stated: a signature that verifies true for a response verifies
\* false for every response that differs from it in the value of a signed
\* field, unless an amount field differs only by trailing zeros.
C25_AnyChangeInvalidates ==
  Accepted =>
    \A f \in SignedNames : \A v \in FieldValues(f) \ {args.response[f]} :
      ~OnlyTrailingZeros(f, args.response[f], v) =>
        VerdictFor(Changed(f, v)) = <<"returned", FALSE>>

\* C25, amended: a signature that verifies true for a response verifies
\* false for every response whose canonical message is another one, and
\* true for those with the same canonical message; changing one signed
\* field leaves the canonical message as it was exactly when an absent
\* value (undefined, null) takes the place of another, or an amount differs
\* only by trailing zeros.
C25_ChangedMessageInvalidates ==
  Accepted =>
    \A f \in SignedNames : \A v \in FieldValues(f) \ {args.response[f]} :
      LET same == CanonicalOf(op, Changed(f, v)) = CanonicalOf(op, args.response)
      IN  /\ VerdictFor(Changed(f, v)) = <<"returned", same>>
          /\ same <=> \/ Absent(args.response[f]) /\ Absent(v)
                      \/ OnlyTrailingZeros(f, args.response[f], v)

\* a callback was accepted, and the same signature is turned down for the
\* callback with another paymentId
C25_Witness ==
  /\ Accepted
  /\ op = "verifyCallbackSignature"
  /\ args.response.paymentId = <<"a">>
  /\ args.response.conversationId = Null
  /\ VerdictFor(Changed("paymentId", <<"1", ".", "0">>)) = <<"returned", FALSE>>
  /\ VerdictFor(Changed("conversationId", Undefined)) = <<"returned", TRUE>>


\* ------------------------------------------------------------------------
\* C24: calls in flight together
\* ------------------------------------------------------------------------

\* the message that the call with frame f has hashed when it runs alone
MessageAlone(f) ==
  CASE f.kind = "generateAuthHeader" ->
         f.args.randomKey \o f.args.uriPath \o BodyText(f.args.body)
    [] f.kind = "verifyThreeDSInitSignature" ->
         CanonicalOf("verifyThreeDSInitSignature", f.args.response)
    [] f.kind = "verifyWebhookSignature" -> DirectText(f.args.secretKey, f.args.payload)
    [] OTHER -> f.args.randomKey \o f.args.uriPath \o BodyText(f.args.jsonBody)

\* the secret key of the call with frame f
SecretAlone(f) == IF f.kind = "request" THEN <<"k">> ELSE f.args.secretKey

\* what the call with frame f settles with when it runs alone, fetch and
\* the response apart
SettledAlone(f) ==
  CASE f.kind = "generateAuthHeader" ->
         <<"returned", ExpectedAuthHeader(f.args.apiKey, f.args.secretKey, f.args.randomKey,
                                          f.args.uriPath, f.args.body)>>
    [] f.kind = "verifyThreeDSInitSignature" ->
         Verdict(f.args.secretKey, verifyThreeDSInitSignatureMessage(f.args.response),
                 f.args.response.signature)
    [] f.kind = "verifyWebhookSignature" ->
         <<"returned",
           f.args.signature # <<>> /\
             f.args.signature =
               hmacSha256Hex(f.args.secretKey, DirectText(f.args.secretKey, f.args.payload))>>
    [] OTHER -> <<f.outcome, f.result>>

\* the request that the call with frame f hands to fetch when it runs alone
SentAlone(f) ==
  [called |-> TRUE,
   url |-> <<"h", ":", "/", "/", "x">> \o f.args.path,
   init |-> [method |-> f.args.method,
             headers |-> [n \in {"Accept", "Authorization", "x-iyzi-rnd", "Content-Type"} |->
                            IF n = "Authorization"
                            THEN ExpectedAuthHeader(<<"a">>, <<"k">>,
                                                    f.args.first \o f.args.second,
                                                    f.args.uriPath, f.args.jsonBody)
                            ELSE IF n = "x-iyzi-rnd" THEN f.args.first \o f.args.second
                            ELSE ApplicationJson],
             body |-> f.args.jsonBody,
             signal |-> <<"3", "0", "0", "0", "0">>]]

\* the call with frame f is where it is when it runs alone
AsAlone(f) ==
  IF f.kind = "none" THEN f = NoFrame
  ELSE /\ f.pc \in {"await_importKey", "await_sign"} =>
            /\ f.secret = SecretAlone(f)
            /\ f.message = MessageAlone(f)
            /\ f.pc = "await_sign" => f.key = SecretAlone(f)
       /\ f.pc = "done" => <<f.outcome, f.result>> = SettledAlone(f)
       /\ (f.kind = "request" /\ f.pc \in {"await_fetch", "await_text", "done"}) =>
            f.fetched = SentAlone(f)
       /\ f.kind # "request" => f.fetched = NoFetch

\* C24: calls in flight together do not interfere: in every interleaving
\* of the asynchronous steps of signing, verification and request calls,
\* on one client too, every call hashes, sends and returns what it does
\* when it runs alone: every Authorization header is that of the call's
\* own nonce, path and body.
C24_NoInterference ==
  \A i \in CallIds : AsAlone(frames[i])

\* a request has gone out while another one on the same client, with
\* another nonce, is still waiting for its key
C24_Witness ==
  \E i \in CallIds, j \in CallIds :
    /\ frames[i].kind = "request"
    /\ frames[j].kind = "request"
    /\ frames[i].pc = "await_importKey"
    /\ frames[j].pc = "await_fetch"
    /\ frames[i].args.randomKey # frames[j].args.randomKey
    /\ frames[j].fetched.init.headers["x-iyzi-rnd"] = frames[j].args.randomKey


\* ------------------------------------------------------------------------
\* C21: a nonce of its own for every request
\* ------------------------------------------------------------------------

\* the requests on the client that have been handed to fetch
SentRequests == {i \in CallIds : frames[i].kind = "request" /\ frames[i].fetched.called}

\* the x-iyzi-rnd header that request i carries
CarriedNonce(i) == frames[i].fetched.init.headers["x-iyzi-rnd"]

\* the two values the random source gave when request i was built
DrawnBy(i) == <<frames[i].args.first, frames[i].args.second>>

\* C21 as stated: every request draws its own nonce from the random source
\* when it is built, so two requests on one client carry the same
\* x-iyzi-rnd only if the random source returned the same values twice.
C21_SameNonceSameValues ==
  \A i \in SentRequests : \A j \in SentRequests :
    CarriedNonce(i) = CarriedNonce(j) => DrawnBy(i) = DrawnBy(j)

\* C21, amended: every request draws its own nonce from the random source
\* when it is built, and nothing of an earlier request goes into it: two
\* requests on one client carry the same x-iyzi-rnd exactly when the
\* decimal texts of the two values drawn for the one, put one after the
\* other, spell the same string as those drawn for the other.
C21_FreshNonce ==
  \A i \in SentRequests : \A j \in SentRequests :
    CarriedNonce(i) = CarriedNonce(j) <=>
      DrawnBy(i)[1] \o DrawnBy(i)[2] = DrawnBy(j)[1] \o DrawnBy(j)[2]

\* two requests went out, built from 1, 11 and from 11, 1: both carry 111
C21_Witness ==
  \E i \in SentRequests : \E j \in SentRequests :
    /\ DrawnBy(i) = <<<<"1">>, <<"1", "1">>>>
    /\ DrawnBy(j) = <<<<"1", "1">>, <<"1">>>>
    /\ CarriedNonce(i) = <<"1", "1", "1">>
    /\ CarriedNonce(j) = <<"1", "1", "1">>

====
